---- MODULE Spec2Model ----
(***************************************************************************)
(* Order ledger of the multi-tenant storefront: the public store routes,   *)
(* checkout, and the catalog / tenant / order mutations of                 *)
(* server/routes.ts over the tables of shared/schema.ts as accessed by     *)
(* DatabaseStorage (server/storage.ts).                                    *)
(*                                                                         *)
(* Representation.                                                         *)
(*  - A decimal(10,2) column holds an integer number of cents.             *)
(*  - A JS number is an integer count of 1/(100*QtyUnit): parseFloat of a  *)
(*    two-decimal column and its products with a quantity are exact in     *)
(*    that unit.  For amounts that fit decimal(10,2) the binary rounding   *)
(*    error of a double is below 1e-7, far from the half cent at which     *)
(*    toFixed(2) rounds, so toFixed(2) of a value that is a whole number   *)
(*    of cents is that number; where the value is not a whole number of    *)
(*    cents both neighbouring cents are possible results.                  *)
(*  - A request quantity q is the integer q*QtyUnit, so that non-integral  *)
(*    quantities (1.5) are inputs.                                         *)
(*  - Each handler runs as one step; req / resp record the last request    *)
(*    served and the response it got, was the status the order addressed   *)
(*    by that request had when it arrived.  Handlers whose interleaving    *)
(*    matters (product creation, overlapping registrations, deleteTenant,  *)
(*    the unawaited notification) run as one step per awaited storage      *)
(*    call; creating holds the product creations and registrations in      *)
(*    flight.                                                              *)
(*  - A Date is a whole number of hours since the epoch, env.now the       *)
(*    server's clock and env.tz its time zone in hours east of UTC.        *)
(***************************************************************************)
EXTENDS Integers, Sequences, FiniteSets, TLC

VARIABLES tenants, products, productVariants, shippingClasses, orders, req, resp,
          plans, users, storeSettings, domainMappings,
          env, outbox, creating, deleting, was

vars == <<tenants, products, productVariants, shippingClasses, orders, req, resp,
          plans, users, storeSettings, domainMappings,
          env, outbox, creating, deleting, was>>

\* the account-side tables, and the calls in flight
accounts == <<plans, users, storeSettings, domainMappings>>
inFlight == <<outbox, creating, deleting>>

\* ---------------------------------------------------------------- bounds
MaxOrders == 1
MaxBatch == 3
MaxRequests == 2
MaxRows == 3
MaxCatalog == 12
QtyUnit == 2

\* ---------------------------------------------------------------- schema
tenantStatusEnum == {"active", "suspended", "pending"}
productStatusEnum == {"active", "draft", "archived"}
orderStatusEnum == {"new", "confirmed", "shipped", "delivered", "cancelled"}

TenantIds == {"t1", "t2"}
PlanIds == {"free", "pro"}
ProductIds == {"p1", "p2"}
VariantIds == {"v1"}
ShippingClassIds == {"sc1", "sc2"}
None == "none"

\* ------------------------------------------------------------------ time
\* A Date is a whole number of hours since 1970-01-01T00:00Z; an ISO date
\* (toISOString().split("T")[0]) is the number of its UTC day, and ISO dates
\* of years 0000 to 9999 compare as strings the way their day numbers do.
HoursPerDay == 24

\* new Date() when the model starts: 1970-04-13 (a Monday), 12:00Z
Now == 102 * HoursPerDay + 12

\* ------------------------------------------------------- money primitives
parseFloat(cents) == cents * QtyUnit

times(x, quantity) == (x * quantity) \div QtyUnit

toFixed2(x) ==
  IF x % QtyUnit = 0 THEN {x \div QtyUnit}
  ELSE {x \div QtyUnit, (x \div QtyUnit) + 1}

\* --------------------------------------------------------- checkoutSchema
Digits == {"0", "1", "2", "3", "4", "5", "6", "7", "8", "9"}

\* String.prototype.replace(/^prefix/, "")
stripPrefix(s, prefix) ==
  IF Len(s) >= Len(prefix) /\ SubSeq(s, 1, Len(prefix)) = prefix
  THEN SubSeq(s, Len(prefix) + 1, Len(s))
  ELSE s

phoneRefine(val) ==
  LET cleaned == stripPrefix(stripPrefix(stripPrefix(val, <<"+", "8", "8", "0">>),
                                         <<"8", "8", "0">>), <<"0">>)
  IN /\ Len(cleaned) = 10
     /\ cleaned[1] = "1"
     /\ cleaned[2] \in {"3", "4", "5", "6", "7", "8", "9"}
     /\ \A i \in 3..10 : cleaned[i] \in Digits

\* The issues of checkoutSchema.parse(body), in the order of the schema's keys.
checkoutIssues(body) ==
  (IF Len(body.customerName) < 2 THEN <<"Name must be at least 2 characters">> ELSE <<>>)
  \o (IF ~phoneRefine(body.phone)
      THEN <<"Invalid Bangladeshi phone number. Use format: 01XXXXXXXXX or +8801XXXXXXXXX">>
      ELSE <<>>)
  \o (IF Len(body.address) < 10 THEN <<"Please enter a complete address">> ELSE <<>>)
  \o (IF body.quantity < 1 * QtyUnit THEN <<"Quantity must be at least 1">> ELSE <<>>)
  \o (IF Len(body.shippingClassId) < 1 THEN <<"Please select a shipping option">> ELSE <<>>)

\* ---------------------------------------------------------------- storage
getTenantBySlug(slug) ==
  IF \E t \in DOMAIN tenants : tenants[t].slug = slug
  THEN CHOOSE t \in DOMAIN tenants : tenants[t].slug = slug
  ELSE None

getProduct(id) == IF id \in DOMAIN products THEN id ELSE None

getProductBySlug(tenantId, slug) ==
  IF \E p \in DOMAIN products : products[p].tenantId = tenantId /\ products[p].slug = slug
  THEN CHOOSE p \in DOMAIN products : products[p].tenantId = tenantId /\ products[p].slug = slug
  ELSE None

getProductsByTenant(tenantId) == {p \in DOMAIN products : products[p].tenantId = tenantId}

getProductVariant(id) == IF id \in DOMAIN productVariants THEN id ELSE None

getShippingClass(id) == IF id \in DOMAIN shippingClasses THEN id ELSE None

\* store_settings.tenant_id is unique: a settings row is named by its tenant
getStoreSettings(tenantId) == IF tenantId \in DOMAIN storeSettings THEN tenantId ELSE None

\* order ids are positive; 0 stands for "no such row"
getOrder(id) == IF id \in DOMAIN orders THEN id ELSE 0

\* The orders table accepts a row only if its quantity is an integer
\* (integer("quantity")); any other value makes the insert throw.
insertAccepted(row) == row.quantity % QtyUnit = 0

createOrder(row) ==
  Append(orders, [id |-> Len(orders) + 1,
                  tenantId |-> row.tenantId,
                  productId |-> row.productId,
                  variantId |-> None,
                  quantity |-> row.quantity \div QtyUnit,
                  shippingClassId |-> row.shippingClassId,
                  shippingFee |-> row.shippingFee,
                  subtotal |-> row.subtotal,
                  total |-> row.total,
                  status |-> row.status,
                  createdAt |-> env.now])

\* ---------------------------------------------------------------- replies
Reply(code, message) ==
  [code |-> code, message |-> message, tenant |-> None, products |-> {}, order |-> 0]

\* ------------------------------------------------------------------- Init
Init ==
  /\ tenants = [t \in TenantIds |->
                  [slug |-> IF t = "t1" THEN "shop1" ELSE "shop2",
                   planId |-> "free", status |-> "active"]]
  /\ products = [p \in ProductIds |->
                  [tenantId |-> IF p = "p1" THEN "t1" ELSE "t2",
                   name |-> IF p = "p1" THEN "Shirt" ELSE "Mug",
                   slug |-> IF p = "p1" THEN "shirt" ELSE "mug",
                   price |-> IF p = "p1" THEN 3333 ELSE 50000,
                   status |-> "active"]]
  /\ productVariants = [v \in VariantIds |-> [productId |-> "p1", price |-> 70000]]
  /\ shippingClasses = [s \in ShippingClassIds |->
                  [tenantId |-> IF s = "sc1" THEN "t1" ELSE "t2", fee |-> 6000]]
  /\ orders = <<>>
  /\ req = [op |-> "none"]
  /\ resp = Reply(0, "")
  /\ plans = [p \in PlanIds |->
                IF p = "free"
                THEN [productLimit |-> 5, allowCustomDomain |-> FALSE,
                      allowTracking |-> TRUE, price |-> 0, isActive |-> TRUE]
                ELSE [productLimit |-> 2, allowCustomDomain |-> TRUE,
                      allowTracking |-> TRUE, price |-> 50000, isActive |-> TRUE]]
  /\ users = [u \in {"u1", "u2"} |->
                [email |-> IF u = "u1" THEN "a@shop1" ELSE "b@shop2",
                 tenantId |-> IF u = "u1" THEN "t1" ELSE "t2"]]
  /\ storeSettings = [t \in TenantIds |-> [contactEmail |-> None]]
  /\ domainMappings = << >>
  /\ env = [smtp |-> TRUE, settingsFault |-> FALSE, now |-> Now, tz |-> 0]
  /\ outbox = << >>
  /\ creating = << >>
  /\ deleting = [id |-> None, step |-> 0]
  /\ was = None

\* ------------------------------------------------------------ route guards
\* Variation: the tenant's status is not looked at.
storeVisibleAnyStatus(tenant) == tenant # None

\* routes.ts: if (!tenant || tenant.status !== "active") -> 404
storeVisible(tenant) == tenant # None /\ tenants[tenant].status = "active"

\* Variation: the product's owner is not compared with the caller.
productUsableAnyTenant(product, tenantId) == product # None

\* routes.ts: if (!product || product.tenantId !== tenant.id) -> 404
productUsable(product, tenantId) ==
  product # None /\ products[product].tenantId = tenantId

\* Variation: the shipping class's owner is not compared with the tenant.
shippingUsableAnyTenant(shippingClass, tenantId) == shippingClass # None

\* routes.ts: if (!shippingClass || shippingClass.tenantId !== tenant.id) -> 400
shippingUsable(shippingClass, tenantId) ==
  shippingClass # None /\ shippingClasses[shippingClass].tenantId = tenantId

\* routes.ts: products.filter((p) => p.status === "active")
activeProducts(ps) == {p \in ps : products[p].status = "active"}

\* routes.ts: if (!product || product.status !== "active") -> 404
productListed(product) == product # None /\ products[product].status = "active"

\* Variation: parseInt in place of parseFloat drops the cents of the price.
orderSubtotalParseInt(product, variantId, quantity) ==
  times(parseFloat((products[product].price \div 100) * 100), quantity)

\* routes.ts: const subtotal = parseFloat(product.price) * data.quantity
orderSubtotal(product, variantId, quantity) ==
  times(parseFloat(products[product].price), quantity)

\* Variation: the shipping fee is left out of the total.
orderTotalNoFee(subtotal, shippingFee) == subtotal

\* routes.ts: const total = subtotal + shippingFee
orderTotal(subtotal, shippingFee) == subtotal + shippingFee

\* routes.ts: if (storeSettings?.contactEmail); an empty string is falsy too
notifyWanted(settings) ==
  settings # None /\ storeSettings[settings].contactEmail \notin {None, ""}

\* email.ts sendNewOrderEmail, up to its first await: without SMTP credentials
\* the call logs and returns false, otherwise transporter.sendMail is started.
\* The call is not awaited by the route; its promise settles in MailSettles.
sendNewOrderEmail(orderId, tenantEmail) ==
  outbox @@ (orderId :> [to |-> tenantEmail,
                         state |-> IF env.smtp THEN "sending" ELSE "skipped",
                         calls |-> IF orderId \in DOMAIN outbox
                                   THEN outbox[orderId].calls + 1 ELSE 1])

\* ----------------------------------------------------- public store routes
\* GET /api/store/:storeSlug
GetStore(storeSlug) ==
  LET tenant == getTenantBySlug(storeSlug)
  IN /\ req' = [op |-> "store", storeSlug |-> storeSlug]
     /\ resp' = IF ~storeVisible(tenant) THEN Reply(404, "Store not found")
                ELSE [Reply(200, "") EXCEPT
                        !.tenant = tenant,
                        !.products = activeProducts(getProductsByTenant(tenant))]
     /\ UNCHANGED <<tenants, products, productVariants, shippingClasses, orders>>
     /\ was' = None /\ UNCHANGED <<accounts, env, inFlight>>

\* GET /api/store/:storeSlug/product/:productSlug
GetStoreProduct(storeSlug, productSlug) ==
  LET tenant == getTenantBySlug(storeSlug)
      product == getProductBySlug(tenant, productSlug)
  IN /\ req' = [op |-> "product", storeSlug |-> storeSlug, productSlug |-> productSlug]
     /\ resp' = IF ~storeVisible(tenant) THEN Reply(404, "Store not found")
                ELSE IF ~productListed(product) THEN Reply(404, "Product not found")
                ELSE [Reply(200, "") EXCEPT !.tenant = tenant, !.products = {product}]
     /\ UNCHANGED <<tenants, products, productVariants, shippingClasses, orders>>
     /\ was' = None /\ UNCHANGED <<accounts, env, inFlight>>

\* POST /api/store/:storeSlug/orders
PostOrder(storeSlug, body) ==
  LET tenant == getTenantBySlug(storeSlug)
      issues == checkoutIssues(body)
      product == getProduct(body.productId)
      shippingClass == getShippingClass(body.shippingClassId)
  IN /\ req' = [op |-> "checkout", storeSlug |-> storeSlug, body |-> body]
     /\ UNCHANGED <<tenants, products, productVariants, shippingClasses>>
     /\ was' = None /\ UNCHANGED <<accounts, env, creating, deleting>>
     /\ IF ~storeVisible(tenant)
        THEN resp' = Reply(404, "Store not found") /\ UNCHANGED <<orders, outbox>>
        ELSE IF issues # <<>>
        THEN resp' = Reply(400, issues[1]) /\ UNCHANGED <<orders, outbox>>
        ELSE IF ~productUsable(product, tenant)
        THEN resp' = Reply(404, "Product not found") /\ UNCHANGED <<orders, outbox>>
        ELSE IF ~shippingUsable(shippingClass, tenant)
        THEN resp' = Reply(400, "Invalid shipping option") /\ UNCHANGED <<orders, outbox>>
        ELSE
          LET subtotal == orderSubtotal(product, body.variantId, body.quantity)
              shippingFee == parseFloat(shippingClasses[shippingClass].fee)
              total == orderTotal(subtotal, shippingFee)
          IN \E fee2 \in toFixed2(shippingFee), sub2 \in toFixed2(subtotal),
                tot2 \in toFixed2(total) :
               LET row == [tenantId |-> tenant,
                           productId |-> product,
                           quantity |-> body.quantity,
                           shippingClassId |-> body.shippingClassId,
                           shippingFee |-> fee2,
                           subtotal |-> sub2,
                           total |-> tot2,
                           status |-> "new"]
               IN IF ~insertAccepted(row)
                  THEN /\ resp' = Reply(500, "Failed to create order")
                       /\ UNCHANGED <<orders, outbox>>
                  ELSE /\ orders' = createOrder(row)
                       /\ IF env.settingsFault
                          THEN /\ resp' = Reply(500, "Failed to create order")
                               /\ UNCHANGED outbox
                          ELSE /\ resp' = [Reply(200, "") EXCEPT !.order = Len(orders) + 1]
                               /\ outbox' =
                                    IF notifyWanted(getStoreSettings(tenant))
                                    THEN sendNewOrderEmail(Len(orders) + 1,
                                           storeSettings[tenant].contactEmail)
                                    ELSE outbox

\* ------------------------------------------------------- tenant dashboard
\* db.update(table).set(data): the columns named in data are overwritten.
setColumns(row, data) ==
  [c \in DOMAIN row |-> IF c \in DOMAIN data THEN data[c] ELSE row[c]]

\* PATCH /api/products/:id
PatchProduct(tenantId, id, data) ==
  LET product == getProduct(id)
  IN /\ req' = [op |-> "patchProduct", tenantId |-> tenantId, id |-> id]
     /\ IF ~productUsable(product, tenantId)
        THEN resp' = Reply(404, "Product not found") /\ UNCHANGED products
        ELSE /\ products' = [products EXCEPT ![id] = setColumns(@, data)]
             /\ resp' = Reply(200, "")
     /\ UNCHANGED <<tenants, productVariants, shippingClasses, orders>>
     /\ was' = None /\ UNCHANGED <<accounts, env, inFlight>>

\* DatabaseStorage.deleteProductVariants
deleteProductVariants(productId) ==
  [v \in {w \in DOMAIN productVariants : productVariants[w].productId # productId} |->
     productVariants[v]]

\* orders.product_id references products.id (no cascade): a product that an
\* order names cannot be deleted, the statement throws.
productReferenced(id) == \E i \in DOMAIN orders : orders[i].productId = id

\* orders.shipping_class_id references shipping_classes.id (no cascade)
shippingClassReferenced(id) == \E i \in DOMAIN orders : orders[i].shippingClassId = id

\* DELETE /api/products/:id with DatabaseStorage.deleteProduct: the variants
\* are deleted first, in a statement of their own.
DeleteProduct(tenantId, id) ==
  LET product == getProduct(id)
  IN /\ req' = [op |-> "deleteProduct", tenantId |-> tenantId, id |-> id]
     /\ IF ~productUsable(product, tenantId)
        THEN /\ resp' = Reply(404, "Product not found")
             /\ UNCHANGED <<products, productVariants>>
        ELSE /\ productVariants' = deleteProductVariants(id)
             /\ IF productReferenced(id)
                THEN resp' = Reply(500, "Failed to delete product") /\ UNCHANGED products
                ELSE /\ products' = [q \in DOMAIN products \ {id} |-> products[q]]
                     /\ resp' = Reply(200, "")
     /\ UNCHANGED <<tenants, shippingClasses, orders>>
     /\ was' = None /\ UNCHANGED <<accounts, env, inFlight>>

\* PATCH /api/shipping-classes/:id
PatchShippingClass(tenantId, id, data) ==
  LET sc == getShippingClass(id)
  IN /\ req' = [op |-> "patchShipping", tenantId |-> tenantId, id |-> id]
     /\ IF ~shippingUsable(sc, tenantId)
        THEN resp' = Reply(404, "Shipping class not found") /\ UNCHANGED shippingClasses
        ELSE /\ shippingClasses' = [shippingClasses EXCEPT ![id] = setColumns(@, data)]
             /\ resp' = Reply(200, "")
     /\ UNCHANGED <<tenants, products, productVariants, orders>>
     /\ was' = None /\ UNCHANGED <<accounts, env, inFlight>>

\* DELETE /api/shipping-classes/:id
DeleteShippingClass(tenantId, id) ==
  LET sc == getShippingClass(id)
  IN /\ req' = [op |-> "deleteShipping", tenantId |-> tenantId, id |-> id]
     /\ IF ~shippingUsable(sc, tenantId)
        THEN resp' = Reply(404, "Shipping class not found") /\ UNCHANGED shippingClasses
        ELSE IF shippingClassReferenced(id)
        THEN resp' = Reply(500, "Failed to delete shipping class") /\ UNCHANGED shippingClasses
        ELSE /\ shippingClasses' = [q \in DOMAIN shippingClasses \ {id} |-> shippingClasses[q]]
             /\ resp' = Reply(200, "")
     /\ UNCHANGED <<tenants, products, productVariants, orders>>
     /\ was' = None /\ UNCHANGED <<accounts, env, inFlight>>

\* Variation: a status update that re-prices the row from the live catalog.
updateOrderStatusReprice(id, status) ==
  [orders EXCEPT ![id].status = status,
                 ![id].subtotal = products[orders[id].productId].price * orders[id].quantity,
                 ![id].total = products[orders[id].productId].price * orders[id].quantity
                               + orders[id].shippingFee]

\* Variation: a status update that only moves forward along
\* new, confirmed, shipped, delivered, cancelled.
updateOrderStatusForwardOnly(id, status) ==
  LET rank == [new |-> 1, confirmed |-> 2, shipped |-> 3, delivered |-> 4, cancelled |-> 5]
  IN IF rank[status] > rank[orders[id].status]
     THEN [orders EXCEPT ![id].status = status] ELSE orders

\* DatabaseStorage.updateOrderStatus
updateOrderStatus(id, status) == [orders EXCEPT ![id].status = status]

\* PATCH /api/orders/:id/status
PatchOrderStatus(tenantId, id, status) ==
  LET order == getOrder(id)
  IN /\ req' = [op |-> "patchOrder", tenantId |-> tenantId, id |-> id, status |-> status]
     /\ IF order = 0 \/ orders[order].tenantId # tenantId
        THEN resp' = Reply(404, "Order not found") /\ UNCHANGED orders /\ was' = None
        ELSE /\ orders' = updateOrderStatus(id, status)
             /\ resp' = [Reply(200, "") EXCEPT !.order = id]
             /\ was' = orders[order].status
     /\ UNCHANGED <<tenants, products, productVariants, shippingClasses>>
     /\ UNCHANGED <<accounts, env, inFlight>>

\* Variation: the batch is applied without the ownership count.
batchVerifiedAlways(allOrders, ids) == TRUE

\* storage.ts: if (allOrders.length !== ids.length) throw
batchVerified(allOrders, ids) == Cardinality(allOrders) = Len(ids)

\* DatabaseStorage.bulkUpdateOrderStatus(ids, status, tenantId); a reply of
\* 500 stands for the thrown Error, resp.order for the returned count.
bulkUpdateOrderStatus(ids, status, tenantId) ==
  LET allOrders == {i \in DOMAIN orders :
                      orders[i].tenantId = tenantId /\ \E k \in DOMAIN ids : ids[k] = i}
  IN /\ req' = [op |-> "bulkStatus", tenantId |-> tenantId, ids |-> ids, status |-> status]
     /\ IF ~batchVerified(allOrders, ids)
        THEN /\ resp' = Reply(500, "Some orders not found or don't belong to tenant")
             /\ UNCHANGED orders
        ELSE /\ orders' = [i \in DOMAIN orders |->
                             IF i \in allOrders
                             THEN [orders[i] EXCEPT !.status = status] ELSE orders[i]]
             /\ resp' = [Reply(200, "") EXCEPT !.order = Cardinality(allOrders)]
     /\ UNCHANGED <<tenants, products, productVariants, shippingClasses>>
     /\ was' = None /\ UNCHANGED <<accounts, env, inFlight>>

\* ------------------------------------------------------------ admin routes
\* DatabaseStorage.updateTenant
updateTenant(id, data) ==
  IF id \in DOMAIN tenants THEN [tenants EXCEPT ![id] = setColumns(@, data)] ELSE tenants

\* PATCH /api/admin/tenants/:id/status
AdminPatchTenantStatus(id, status) ==
  /\ req' = [op |-> "tenantStatus", id |-> id]
  /\ tenants' = updateTenant(id, [status |-> status])
  /\ resp' = Reply(200, "")
  /\ UNCHANGED <<products, productVariants, shippingClasses, orders>>
  /\ was' = None /\ UNCHANGED <<accounts, env, inFlight>>

\* PATCH /api/admin/tenants/:id/plan
AdminPatchTenantPlan(id, planId) ==
  /\ req' = [op |-> "tenantPlan", id |-> id]
  /\ tenants' = updateTenant(id, [planId |-> planId])
  /\ resp' = Reply(200, "")
  /\ UNCHANGED <<products, productVariants, shippingClasses, orders>>
  /\ was' = None /\ UNCHANGED <<accounts, env, inFlight>>

\* ------------------------------------------------- settings and environment
\* DatabaseStorage.upsertStoreSettings
upsertStoreSettings(settings) ==
  IF getStoreSettings(settings.tenantId) # None
  THEN [storeSettings EXCEPT ![settings.tenantId] =
          [c \in DOMAIN @ |-> IF c \in DOMAIN settings THEN settings[c] ELSE @[c]]]
  ELSE storeSettings @@ (settings.tenantId :> [contactEmail |-> settings.contactEmail])

\* PATCH /api/store-settings
PatchStoreSettings(tenantId, data) ==
  /\ req' = [op |-> "patchSettings", tenantId |-> tenantId]
  /\ storeSettings' = upsertStoreSettings([contactEmail |-> data.contactEmail,
                                           tenantId |-> tenantId])
  /\ resp' = Reply(200, "")
  /\ was' = None
  /\ UNCHANGED <<tenants, products, productVariants, shippingClasses, orders>>
  /\ UNCHANGED <<plans, users, domainMappings, env, inFlight>>

\* process.env.SMTP_USER / SMTP_PASS, read by sendNewOrderEmail at each call
SetSmtp(configured) ==
  /\ env' = [env EXCEPT !.smtp = configured]
  /\ UNCHANGED <<tenants, products, productVariants, shippingClasses, orders, req, resp>>
  /\ UNCHANGED <<accounts, inFlight, was>>

\* The store_settings query of getStoreSettings starts / stops rejecting.
SettingsLookup(failing) ==
  /\ env' = [env EXCEPT !.settingsFault = failing]
  /\ UNCHANGED <<tenants, products, productVariants, shippingClasses, orders, req, resp>>
  /\ UNCHANGED <<accounts, inFlight, was>>

\* email.ts: transporter.sendMail resolves (return true) or rejects (the
\* catch logs and returns false); nothing is re-sent.
MailSettles(orderId, delivered) ==
  /\ orderId \in DOMAIN outbox
  /\ outbox[orderId].state = "sending"
  /\ outbox' = [outbox EXCEPT ![orderId].state = IF delivered THEN "sent" ELSE "failed"]
  /\ UNCHANGED <<tenants, products, productVariants, shippingClasses, orders, req, resp>>
  /\ UNCHANGED <<accounts, env, creating, deleting, was>>

\* ------------------------------------------------------- product creation
\* requireTenant: getUserWithTenant loads the caller's tenant with its plan;
\* the handler later reads user.tenant.plan from this copy.
getUserWithTenant(tenantId) ==
  [id |-> tenants[tenantId].planId,
   productLimit |-> plans[tenants[tenantId].planId].productLimit]

\* DatabaseStorage.countProductsByTenant
countProductsByTenant(tenantId) == Cardinality(getProductsByTenant(tenantId))

\* routes.ts: user.tenant?.plan?.productLimit || 5  (0 is falsy)
limitOrDefault(productLimit) == IF productLimit = 0 THEN 5 ELSE productLimit

\* routes.ts: `Product limit reached (${productLimit}). Please upgrade your plan.`
limitMessage(productLimit) ==
  "Product limit reached (" \o ToString(productLimit) \o "). Please upgrade your plan."

\* gen_random_uuid(): an id of the table that no row has
freshId(prefix, used) ==
  LET taken == {n \in 1..(Cardinality(used) + 1) : (prefix \o ToString(n)) \in used}
      n == CHOOSE k \in 1..(Cardinality(used) + 1) :
             k \notin taken /\ \A j \in 1..(k - 1) : j \in taken
  IN prefix \o ToString(n)

\* DatabaseStorage.createProduct({...req.body, tenantId})
createProduct(body, tenantId) ==
  products @@ (freshId("np", DOMAIN products) :> [tenantId |-> tenantId, name |-> body.name,
                                                slug |-> body.slug,
                                                price |-> body.price,
                                                status |-> body.status])

\* POST /api/products, middleware: requireTenant
ProductsBegin(rid, tenantId, body) ==
  /\ rid \notin DOMAIN creating
  /\ creating' = creating @@ (rid :> [tenantId |-> tenantId, pc |-> "count",
                                      plan |-> getUserWithTenant(tenantId),
                                      productCount |-> 0, body |-> body])
  /\ UNCHANGED <<tenants, products, productVariants, shippingClasses, orders, req, resp>>
  /\ UNCHANGED <<accounts, env, outbox, deleting, was>>

\* POST /api/products: const productCount = await storage.countProductsByTenant
ProductsCount(rid) ==
  /\ rid \in DOMAIN creating
  /\ creating[rid].pc = "count"
  /\ creating' = [creating EXCEPT ![rid].pc = "insert",
                    ![rid].productCount = countProductsByTenant(creating[rid].tenantId)]
  /\ UNCHANGED <<tenants, products, productVariants, shippingClasses, orders, req, resp>>
  /\ UNCHANGED <<accounts, env, outbox, deleting, was>>

\* POST /api/products: the limit check and the insert
ProductsFinish(rid) ==
  /\ rid \in DOMAIN creating
  /\ creating[rid].pc = "insert"
  /\ LET call == creating[rid]
         productLimit == limitOrDefault(call.plan.productLimit)
     IN /\ req' = [op |-> "createProduct", tenantId |-> call.tenantId]
        /\ IF call.productCount >= productLimit
           THEN resp' = Reply(403, limitMessage(productLimit)) /\ UNCHANGED products
           ELSE /\ products' = createProduct(call.body, call.tenantId)
                /\ resp' = Reply(200, "")
  /\ creating' = [r \in DOMAIN creating \ {rid} |-> creating[r]]
  /\ was' = None
  /\ UNCHANGED <<tenants, productVariants, shippingClasses, orders>>
  /\ UNCHANGED <<accounts, env, outbox, deleting>>

\* DatabaseStorage.updatePlan
updatePlan(id, data) ==
  IF id \in DOMAIN plans THEN [plans EXCEPT ![id] = setColumns(@, data)] ELSE plans

\* PATCH /api/admin/plans/:id
AdminPatchPlan(id, data) ==
  /\ req' = [op |-> "patchPlan", id |-> id]
  /\ plans' = updatePlan(id, data)
  /\ resp' = Reply(200, "")
  /\ was' = None
  /\ UNCHANGED <<tenants, products, productVariants, shippingClasses, orders>>
  /\ UNCHANGED <<users, storeSettings, domainMappings, env, inFlight>>

\* ----------------------------------------------------------- registration
\* The issues of registerSchema.parse(body), in the order of the schema's
\* keys (the e-mail format and the slug's character set are taken as valid).
registerIssues(body) ==
  (IF Len(body.password) < 8 THEN <<"Password must be at least 8 characters">> ELSE <<>>)
  \o (IF Len(body.storeName) < 2 THEN <<"Store name must be at least 2 characters">> ELSE <<>>)
  \o (IF Len(body.storeSlug) < 2 THEN <<"Store slug must be at least 2 characters">> ELSE <<>>)

getUserByEmail(email) ==
  IF \E u \in DOMAIN users : users[u].email = email
  THEN CHOOSE u \in DOMAIN users : users[u].email = email
  ELSE None

checkSlugAvailability(slug) == getTenantBySlug(slug) = None

\* (await storage.getActivePlans())[0]: the active plans come ordered by
\* price, so the first is an active plan of least price (any of them on a tie).
getActivePlans ==
  {p \in DOMAIN plans :
     /\ plans[p].isActive
     /\ \A q \in DOMAIN plans : plans[q].isActive => plans[p].price <= plans[q].price}

\* Variation: the default plan is created whether or not a plan was found.
needsDefaultPlanAlways(activePlans) == TRUE

\* routes.ts: if (!freePlan)
needsDefaultPlan(activePlans) == activePlans = {}

\* the row of storage.createPlan({ name: "Free", ... }) in the register route
defaultPlan ==
  [productLimit |-> 5, allowCustomDomain |-> FALSE, allowTracking |-> TRUE,
   price |-> 0, isActive |-> TRUE]

\* POST /api/auth/register
Register(body) ==
  LET issues == registerIssues(body)
      activePlans == getActivePlans
      planId == freshId("plan", DOMAIN plans)
      tenantId == freshId("t", DOMAIN tenants)
      userId == freshId("u", DOMAIN users)
      inside == freshId("sc", DOMAIN shippingClasses)
      outside == freshId("sc", DOMAIN shippingClasses \cup {inside})
  IN /\ req' = [op |-> "register", email |-> body.email, storeSlug |-> body.storeSlug]
     /\ was' = None
     /\ UNCHANGED <<products, productVariants, orders, domainMappings, env, inFlight>>
     /\ IF issues # <<>>
        THEN /\ resp' = Reply(400, issues[1])
             /\ UNCHANGED <<tenants, shippingClasses, plans, users, storeSettings>>
        ELSE IF getUserByEmail(body.email) # None
        THEN /\ resp' = Reply(400, "Email already registered")
             /\ UNCHANGED <<tenants, shippingClasses, plans, users, storeSettings>>
        ELSE IF ~checkSlugAvailability(body.storeSlug)
        THEN /\ resp' = Reply(400, "Store URL already taken")
             /\ UNCHANGED <<tenants, shippingClasses, plans, users, storeSettings>>
        ELSE \E freePlan \in (IF needsDefaultPlan(activePlans) THEN {planId} ELSE activePlans) :
               /\ plans' = IF needsDefaultPlan(activePlans)
                           THEN plans @@ (planId :> defaultPlan) ELSE plans
               /\ tenants' = tenants @@ (tenantId :> [slug |-> body.storeSlug,
                                                      planId |-> freePlan,
                                                      status |-> "active"])
               /\ users' = users @@ (userId :> [email |-> body.email, tenantId |-> tenantId])
               /\ storeSettings' = upsertStoreSettings([contactEmail |-> None,
                                                        tenantId |-> tenantId])
               /\ shippingClasses' = shippingClasses
                                       @@ (inside :> [tenantId |-> tenantId, fee |-> 6000])
                                       @@ (outside :> [tenantId |-> tenantId, fee |-> 12000])
               /\ resp' = Reply(200, "")

\* ------------------------------------------- registration, call by call
\* POST /api/auth/register as it runs among other requests: one step per
\* awaited storage call.  A call in flight keeps its body, the plan it
\* found or created and the tenant it created; pc names the call it will
\* make next.  No step runs in a transaction.

\* The handler's reply, which ends the call.
registerReply(rid, code, message) ==
  /\ req' = [op |-> "register", email |-> creating[rid].body.email,
             storeSlug |-> creating[rid].body.storeSlug]
  /\ resp' = Reply(code, message)
  /\ was' = None
  /\ creating' = [r \in DOMAIN creating \ {rid} |-> creating[r]]

\* registerSchema.parse(req.body)
RegisterBegin(rid, body) ==
  /\ rid \notin DOMAIN creating
  /\ IF registerIssues(body) # << >>
     THEN /\ req' = [op |-> "register", email |-> body.email, storeSlug |-> body.storeSlug]
          /\ resp' = Reply(400, registerIssues(body)[1])
          /\ was' = None
          /\ UNCHANGED creating
     ELSE /\ creating' = creating @@ (rid :> [pc |-> "getUserByEmail", body |-> body,
                                              freePlan |-> None, tenant |-> None])
          /\ UNCHANGED <<req, resp, was>>
  /\ UNCHANGED <<tenants, products, productVariants, shippingClasses, orders>>
  /\ UNCHANGED <<accounts, env, outbox, deleting>>

\* const existingUser = await storage.getUserByEmail(data.email)
RegisterEmail(rid) ==
  /\ rid \in DOMAIN creating /\ creating[rid].pc = "getUserByEmail"
  /\ IF getUserByEmail(creating[rid].body.email) # None
     THEN registerReply(rid, 400, "Email already registered")
     ELSE /\ creating' = [creating EXCEPT ![rid].pc = "checkSlugAvailability"]
          /\ UNCHANGED <<req, resp, was>>
  /\ UNCHANGED <<tenants, products, productVariants, shippingClasses, orders>>
  /\ UNCHANGED <<accounts, env, outbox, deleting>>

\* const slugAvailable = await storage.checkSlugAvailability(data.storeSlug)
RegisterSlug(rid) ==
  /\ rid \in DOMAIN creating /\ creating[rid].pc = "checkSlugAvailability"
  /\ IF ~ checkSlugAvailability(creating[rid].body.storeSlug)
     THEN registerReply(rid, 400, "Store URL already taken")
     ELSE /\ creating' = [creating EXCEPT ![rid].pc = "getActivePlans"]
          /\ UNCHANGED <<req, resp, was>>
  /\ UNCHANGED <<tenants, products, productVariants, shippingClasses, orders>>
  /\ UNCHANGED <<accounts, env, outbox, deleting>>

\* let freePlan = (await storage.getActivePlans())[0]
RegisterPlans(rid) ==
  /\ rid \in DOMAIN creating /\ creating[rid].pc = "getActivePlans"
  /\ IF needsDefaultPlan(getActivePlans)
     THEN creating' = [creating EXCEPT ![rid].pc = "createPlan"]
     ELSE \E freePlan \in getActivePlans :
            creating' = [creating EXCEPT ![rid].pc = "createTenant",
                                         ![rid].freePlan = freePlan]
  /\ UNCHANGED <<tenants, products, productVariants, shippingClasses, orders, req, resp>>
  /\ UNCHANGED <<accounts, env, outbox, deleting, was>>

\* freePlan = await storage.createPlan({ name: "Free", ... })
RegisterCreatePlan(rid) ==
  /\ rid \in DOMAIN creating /\ creating[rid].pc = "createPlan"
  /\ LET planId == freshId("plan", DOMAIN plans)
     IN /\ plans' = plans @@ (planId :> defaultPlan)
        /\ creating' = [creating EXCEPT ![rid].pc = "createTenant", ![rid].freePlan = planId]
  /\ UNCHANGED <<tenants, products, productVariants, shippingClasses, orders, req, resp>>
  /\ UNCHANGED <<users, storeSettings, domainMappings, env, outbox, deleting, was>>

\* const tenant = await storage.createTenant(...); tenants.slug is unique,
\* and the insert of a slug that a row has throws
RegisterCreateTenant(rid) ==
  /\ rid \in DOMAIN creating /\ creating[rid].pc = "createTenant"
  /\ LET tenantId == freshId("t", DOMAIN tenants)
     IN IF getTenantBySlug(creating[rid].body.storeSlug) # None
        THEN registerReply(rid, 500, "Registration failed") /\ UNCHANGED tenants
        ELSE /\ tenants' = tenants @@ (tenantId :> [slug |-> creating[rid].body.storeSlug,
                                                    planId |-> creating[rid].freePlan,
                                                    status |-> "active"])
             /\ creating' = [creating EXCEPT ![rid].pc = "createUser",
                                             ![rid].tenant = tenantId]
             /\ UNCHANGED <<req, resp, was>>
  /\ UNCHANGED <<products, productVariants, shippingClasses, orders>>
  /\ UNCHANGED <<accounts, env, outbox, deleting>>

\* const user = await storage.createUser(...); users.email is unique, and
\* the insert of an e-mail that a row has throws
RegisterCreateUser(rid) ==
  /\ rid \in DOMAIN creating /\ creating[rid].pc = "createUser"
  /\ IF getUserByEmail(creating[rid].body.email) # None
     THEN registerReply(rid, 500, "Registration failed") /\ UNCHANGED users
     ELSE /\ users' = users @@ (freshId("u", DOMAIN users) :>
                                  [email |-> creating[rid].body.email,
                                   tenantId |-> creating[rid].tenant])
          /\ creating' = [creating EXCEPT ![rid].pc = "upsertStoreSettings"]
          /\ UNCHANGED <<req, resp, was>>
  /\ UNCHANGED <<tenants, products, productVariants, shippingClasses, orders>>
  /\ UNCHANGED <<plans, storeSettings, domainMappings, env, outbox, deleting>>

\* await storage.upsertStoreSettings({ tenantId: tenant.id, primaryColor })
RegisterSettings(rid) ==
  /\ rid \in DOMAIN creating /\ creating[rid].pc = "upsertStoreSettings"
  /\ storeSettings' = upsertStoreSettings([contactEmail |-> None,
                                           tenantId |-> creating[rid].tenant])
  /\ creating' = [creating EXCEPT ![rid].pc = "createShippingClass"]
  /\ UNCHANGED <<tenants, products, productVariants, shippingClasses, orders, req, resp>>
  /\ UNCHANGED <<plans, users, domainMappings, env, outbox, deleting, was>>

\* await storage.createShippingClass({ name: "Inside Dhaka", fee: "60", ... })
RegisterInside(rid) ==
  /\ rid \in DOMAIN creating /\ creating[rid].pc = "createShippingClass"
  /\ shippingClasses' = shippingClasses
                          @@ (freshId("sc", DOMAIN shippingClasses) :>
                                [tenantId |-> creating[rid].tenant, fee |-> 6000])
  /\ creating' = [creating EXCEPT ![rid].pc = "createShippingClass2"]
  /\ UNCHANGED <<tenants, products, productVariants, orders, req, resp>>
  /\ UNCHANGED <<accounts, env, outbox, deleting, was>>

\* await storage.createShippingClass({ name: "Outside Dhaka", fee: "120", ... }),
\* then the session is saved and the handler answers { success: true }
RegisterOutside(rid) ==
  /\ rid \in DOMAIN creating /\ creating[rid].pc = "createShippingClass2"
  /\ shippingClasses' = shippingClasses
                          @@ (freshId("sc", DOMAIN shippingClasses) :>
                                [tenantId |-> creating[rid].tenant, fee |-> 12000])
  /\ registerReply(rid, 200, "")
  /\ UNCHANGED <<tenants, products, productVariants, orders>>
  /\ UNCHANGED <<accounts, env, outbox, deleting>>

\* ---------------------------------------------------------- custom domains
\* A domain name is the sequence of its characters.
UpperCase == <<"A", "B", "C", "D", "E", "F", "G", "H", "I", "J", "K", "L", "M",
               "N", "O", "P", "Q", "R", "S", "T", "U", "V", "W", "X", "Y", "Z">>
LowerCase == <<"a", "b", "c", "d", "e", "f", "g", "h", "i", "j", "k", "l", "m",
               "n", "o", "p", "q", "r", "s", "t", "u", "v", "w", "x", "y", "z">>
\* String.prototype.toLowerCase
toLowerCase(s) ==
  [i \in 1..Len(s) |->
     IF \E k \in 1..26 : UpperCase[k] = s[i]
     THEN LowerCase[CHOOSE k \in 1..26 : UpperCase[k] = s[i]]
     ELSE s[i]]

\* String.prototype.trim
trim(s) ==
  LET inked == {i \in 1..Len(s) : s[i] # " "}
  IN IF inked = {} THEN << >>
     ELSE SubSeq(s, CHOOSE i \in inked : \A j \in inked : i <= j,
                    CHOOSE i \in inked : \A j \in inked : j <= i)

\* /^(?!-)[a-z0-9-]{1,63}(?<!-)(\.[a-z0-9-]{1,63})+$/.test(d): labels of 1 to
\* 63 characters of [a-z0-9-] separated by dots, at least two of them; only
\* the first label is kept from starting or ending with a hyphen.
hostnameRegex(d) ==
  LET dots == {i \in 1..Len(d) : d[i] = "."}
      firstDot == CHOOSE i \in dots : \A j \in dots : i <= j
      labelChar(c) == c \in Digits \/ c = "-" \/ \E k \in 1..26 : LowerCase[k] = c
  IN /\ \A i \in 1..Len(d) : d[i] = "." \/ labelChar(d[i])
     /\ dots # {}
     /\ 1 \notin dots /\ Len(d) \notin dots
     /\ \A i \in dots : (i + 1) \notin dots
     /\ \A i \in 1..(Len(d) - 63) : \E j \in i..(i + 63) : j \in dots
     /\ d[1] # "-"
     /\ d[firstDot - 1] # "-"

\* Variation: a lookup that finds no record.
getDomainMappingNever(domain) == None

\* DatabaseStorage.getDomainMappingByDomain
getDomainMappingByDomain(domain) ==
  IF \E m \in DOMAIN domainMappings : domainMappings[m].domain = toLowerCase(domain)
  THEN CHOOSE m \in DOMAIN domainMappings : domainMappings[m].domain = toLowerCase(domain)
  ELSE None

\* DatabaseStorage.createDomainMapping
createDomainMapping(mapping) ==
  domainMappings @@ (freshId("d", DOMAIN domainMappings) :>
                       [tenantId |-> mapping.tenantId,
                        domain |-> toLowerCase(mapping.domain), verified |-> FALSE])

\* POST /api/domains, behind requireTenant: the caller is a user of tenantId
PostDomain(tenantId, body) ==
  /\ req' = [op |-> "postDomain", tenantId |-> tenantId, domain |-> body.domain]
  /\ LET domainInput == toLowerCase(trim(body.domain))
     IN IF ~ \E u \in DOMAIN users : users[u].tenantId = tenantId
        THEN resp' = Reply(403, "Forbidden") /\ UNCHANGED domainMappings
        ELSE IF ~ plans[tenants[tenantId].planId].allowCustomDomain
        THEN /\ resp' = Reply(403, "Your plan does not support custom domains. Please upgrade.")
             /\ UNCHANGED domainMappings
        ELSE IF Len(domainInput) < 4 \/ Len(domainInput) > 253
        THEN resp' = Reply(400, "Invalid domain name length") /\ UNCHANGED domainMappings
        ELSE IF ~ hostnameRegex(domainInput)
        THEN /\ resp' = Reply(400, "Invalid domain format. Use format like shop.yourdomain.com")
             /\ UNCHANGED domainMappings
        ELSE IF getDomainMappingByDomain(domainInput) # None
        THEN resp' = Reply(400, "This domain is already registered") /\ UNCHANGED domainMappings
        ELSE /\ domainMappings' = createDomainMapping([tenantId |-> tenantId,
                                                       domain |-> domainInput])
             /\ resp' = Reply(200, "")
  /\ UNCHANGED <<tenants, products, productVariants, shippingClasses, orders>>
  /\ UNCHANGED <<plans, users, storeSettings, env, inFlight>>
  /\ was' = None

\* ---------------------------------------------------------- tenant deletion
\* DatabaseStorage.deleteTenant: the table its n-th statement deletes from
deleteTenantStep(n) ==
  <<"orders", "products", "shippingClasses", "storeSettings",
    "domainMappings", "users", "tenants">>[n]

\* The rows of a table that a tenant owns (the tenant's own row for tenants).
ownedRows(table, id) ==
  CASE table = "orders" -> {i \in DOMAIN orders : orders[i].tenantId = id}
    [] table = "products" -> {p \in DOMAIN products : products[p].tenantId = id}
    [] table = "shippingClasses" ->
         {s \in DOMAIN shippingClasses : shippingClasses[s].tenantId = id}
    [] table = "storeSettings" -> {t \in DOMAIN storeSettings : t = id}
    [] table = "domainMappings" ->
         {m \in DOMAIN domainMappings : domainMappings[m].tenantId = id}
    [] table = "users" -> {u \in DOMAIN users : users[u].tenantId = id}
    [] table = "tenants" -> {t \in DOMAIN tenants : t = id}

\* schema.ts references(): the rows a delete would leave referenced make the
\* statement throw.  orders.product_id, orders.variant_id and
\* orders.shipping_class_id do not cascade, product_variants.product_id does;
\* every tenant_id column references tenants.
foreignKeyViolated(table, id) ==
  CASE table = "products" ->
         \E i \in DOMAIN orders :
            \/ orders[i].productId \in ownedRows("products", id)
            \/ /\ orders[i].variantId \in DOMAIN productVariants
               /\ productVariants[orders[i].variantId].productId \in ownedRows("products", id)
    [] table = "shippingClasses" ->
         \E i \in DOMAIN orders : orders[i].shippingClassId \in ownedRows("shippingClasses", id)
    [] table = "tenants" ->
         \E other \in {"orders", "products", "shippingClasses", "storeSettings",
                       "domainMappings", "users"} : ownedRows(other, id) # {}
    [] OTHER -> FALSE

\* db.delete(table).where(...): the table without the rows
withoutRows(rows, gone) == [r \in (DOMAIN rows) \ gone |-> rows[r]]

\* DELETE /api/admin/tenants/:id, behind requireAdmin: the call is accepted
\* and deleteTenant is about to run its first statement.
AdminDeleteTenant(id) ==
  /\ deleting.step = 0
  /\ deleting' = [id |-> id, step |-> 1]
  /\ UNCHANGED <<tenants, products, productVariants, shippingClasses, orders, req, resp>>
  /\ UNCHANGED <<accounts, env, outbox, creating, was>>

\* One awaited statement of DatabaseStorage.deleteTenant.  A statement that
\* throws ends the call and the route answers 500; the statements before it
\* stay applied (no transaction).  After the seventh the route answers 200.
\* An order is named by its position, which the deletion of others changes.
deleteTenant ==
  /\ deleting.step \in 1..7
  /\ LET id == deleting.id
         table == deleteTenantStep(deleting.step)
         gone == ownedRows(table, id)
         keep(o) == o.tenantId # id
     IN IF foreignKeyViolated(table, id)
        THEN /\ deleting' = [id |-> None, step |-> 0]
             /\ req' = [op |-> "deleteTenant", id |-> id]
             /\ resp' = Reply(500, "Failed to delete tenant")
             /\ was' = None
             /\ UNCHANGED <<tenants, products, productVariants, shippingClasses, orders>>
             /\ UNCHANGED accounts
        ELSE /\ orders' = IF table = "orders" THEN SelectSeq(orders, keep) ELSE orders
             /\ products' = IF table = "products" THEN withoutRows(products, gone)
                            ELSE products
             /\ productVariants' =
                  IF table = "products"
                  THEN withoutRows(productVariants,
                         {v \in DOMAIN productVariants : productVariants[v].productId \in gone})
                  ELSE productVariants
             /\ shippingClasses' = IF table = "shippingClasses"
                                   THEN withoutRows(shippingClasses, gone)
                                   ELSE shippingClasses
             /\ storeSettings' = IF table = "storeSettings"
                                 THEN withoutRows(storeSettings, gone) ELSE storeSettings
             /\ domainMappings' = IF table = "domainMappings"
                                  THEN withoutRows(domainMappings, gone)
                                  ELSE domainMappings
             /\ users' = IF table = "users" THEN withoutRows(users, gone) ELSE users
             /\ tenants' = IF table = "tenants" THEN withoutRows(tenants, gone) ELSE tenants
             /\ UNCHANGED plans
             /\ IF deleting.step = 7
                THEN /\ deleting' = [id |-> None, step |-> 0]
                     /\ req' = [op |-> "deleteTenant", id |-> id]
                     /\ resp' = Reply(200, "")
                     /\ was' = None
                ELSE /\ deleting' = [deleting EXCEPT !.step = @ + 1]
                     /\ UNCHANGED <<req, resp, was>>
  /\ UNCHANGED <<env, outbox, creating>>

\* ---------------------------------------------------------------- analytics
\* reduce((sum, x) => sum + x, 0) over a list of numbers
RECURSIVE sumOf(_)
sumOf(xs) == IF xs = << >> THEN 0 ELSE Head(xs) + sumOf(Tail(xs))

\* The keys of a Map in insertion order: each key where it first occurs.
mapKeys(keyOfRow) ==
  LET firsts == {i \in DOMAIN keyOfRow : \A j \in 1..(i - 1) : keyOfRow[j] # keyOfRow[i]}
  IN [k \in 1..Cardinality(firsts) |->
        keyOfRow[CHOOSE i \in firsts : Cardinality({j \in firsts : j < i}) = k - 1]]

\* sort((a, b) => a.localeCompare(b)) of distinct ISO dates
sortAscending(keys) ==
  [k \in 1..Cardinality(keys) |->
     CHOOSE d \in keys : Cardinality({e \in keys : e < d}) = k - 1]

\* Variation: a window that starts at the epoch for every period.
startDateEpoch(period, now) == 0

\* getAnalytics: switch (period), the start of the window
startDate(period, now) ==
  CASE period = "7d" -> now - 7 * HoursPerDay
    [] period = "30d" -> now - 30 * HoursPerDay
    [] period = "90d" -> now - 90 * HoursPerDay
    [] OTHER -> 0

\* getAnalytics: allOrders of the tenant, filtered by createdAt >= startDate
filteredOrders(tenantId, period) ==
  LET start == startDate(period, env.now)
      wanted(o) == o.tenantId = tenantId /\ o.createdAt >= start
  IN SelectSeq(orders, wanted)

\* new Date(x).toISOString().split("T")[0]: the UTC day of an instant
toISODate(date) == date \div HoursPerDay

\* Date.prototype.getDay, in the server's time zone (1970-01-01 was a Thursday)
getDay(date) == ((date + env.tz) \div HoursPerDay + 4) % 7

\* weekStart.setDate(orderDate.getDate() - orderDate.getDay()): the local
\* date moves back by getDay days, the local time of day stays
weekStart(orderDate) == orderDate - getDay(orderDate) * HoursPerDay

\* Variation: the sales trend keyed by week.
salesTrendKeyWeekly(order) == toISODate(weekStart(order.createdAt))

\* getAnalytics, salesTrend: the key of an order
salesTrendKey(order) == toISODate(order.createdAt)

\* getAnalytics, salesTrend
salesTrend(rows) ==
  LET keyOfRow == [i \in DOMAIN rows |-> salesTrendKey(rows[i])]
      dates == sortAscending({keyOfRow[i] : i \in DOMAIN rows})
  IN [k \in DOMAIN dates |->
        LET onDay == {i \in DOMAIN rows : keyOfRow[i] = dates[k]}
        IN [date |-> dates[k],
            revenue |-> sumOf([i \in DOMAIN rows |->
                                 IF i \in onDay THEN parseFloat(rows[i].total) ELSE 0]),
            orders |-> Cardinality(onDay)]]

\* Variation: revenue recognised for every status.
statusRevenueAny(order) == parseFloat(order.total)

\* getAnalytics, orderStatusBreakdown:
\*   order.status === "delivered" ? parseFloat(order.total) : 0
statusRevenue(order) == IF order.status = "delivered" THEN parseFloat(order.total) ELSE 0

\* getAnalytics, orderStatusBreakdown (entries in the Map's insertion order)
orderStatusBreakdown(rows) ==
  LET keyOfRow == [i \in DOMAIN rows |-> rows[i].status]
      statuses == mapKeys(keyOfRow)
  IN [k \in DOMAIN statuses |->
        LET ofStatus == {i \in DOMAIN rows : keyOfRow[i] = statuses[k]}
        IN [status |-> statuses[k],
            count |-> Cardinality(ofStatus),
            revenue |-> sumOf([i \in DOMAIN rows |->
                                 IF i \in ofStatus THEN statusRevenue(rows[i]) ELSE 0])]]

\* Variation: the revenue trend keyed by day for every period.
periodKeyDaily(order, period) == toISODate(order.createdAt)

\* getAnalytics, revenueTrend: periodKey
periodKey(order, period) ==
  IF period = "7d" THEN toISODate(order.createdAt)
  ELSE toISODate(weekStart(order.createdAt))

\* getAnalytics, revenueTrend
revenueTrend(rows, period) ==
  LET keyOfRow == [i \in DOMAIN rows |-> periodKey(rows[i], period)]
      periods == sortAscending({keyOfRow[i] : i \in DOMAIN rows})
  IN [k \in DOMAIN periods |->
        LET inPeriod == {i \in DOMAIN rows : keyOfRow[i] = periods[k]}
        IN [period |-> periods[k],
            revenue |-> sumOf([i \in DOMAIN rows |->
                                 IF i \in inPeriod THEN parseFloat(rows[i].total) ELSE 0]),
            orders |-> Cardinality(inPeriod)]]

\* Variation: the comparator of an ascending sort.
compareRevenueAscending(a, b) == a.revenue - b.revenue

\* getAnalytics, topProducts: sort((a, b) => b.revenue - a.revenue)
compareRevenue(a, b) == b.revenue - a.revenue

\* Array.prototype.sort with that comparator: stable, so of two entries the
\* comparator calls equal the earlier stays first.
sortByRevenue(entries) ==
  LET before(i) == {j \in DOMAIN entries :
                      \/ compareRevenue(entries[j], entries[i]) < 0
                      \/ compareRevenue(entries[j], entries[i]) = 0 /\ j < i}
  IN [k \in DOMAIN entries |->
        entries[CHOOSE i \in DOMAIN entries : Cardinality(before(i)) = k - 1]]

\* getAnalytics, topProducts
topProducts(rows, tenantId) ==
  LET keyOfRow == [i \in DOMAIN rows |-> rows[i].productId]
      ids == mapKeys(keyOfRow)
      productName(id) ==
        IF id \in getProductsByTenant(tenantId) /\ products[id].name # ""
        THEN products[id].name ELSE "Unknown Product"
      entries ==
        [k \in DOMAIN ids |->
           LET ofProduct == {i \in DOMAIN rows : keyOfRow[i] = ids[k]}
           IN [productId |-> ids[k],
               productName |-> productName(ids[k]),
               orders |-> Cardinality(ofProduct),
               revenue |-> sumOf([i \in DOMAIN rows |->
                                    IF i \in ofProduct THEN parseFloat(rows[i].total)
                                    ELSE 0])]]
      sorted == sortByRevenue(entries)
  IN SubSeq(sorted, 1, IF Len(sorted) < 10 THEN Len(sorted) ELSE 10)

\* Variation: Math.floor in place of Math.round.
mathFloor(num, den) == num \div den

\* Math.round of the fraction num / den (den > 0, num >= 0): halves go up
mathRound(num, den) == (2 * num + den) \div (2 * den)

\* getAnalytics, conversionRate, as a whole number of hundredths:
\*   Math.round(((deliveredOrders / totalOrders) * 100) * 100) / 100
conversionRate(rows) ==
  LET totalOrders == Len(rows)
      deliveredOrders == Cardinality({i \in DOMAIN rows : rows[i].status = "delivered"})
  IN IF totalOrders > 0 THEN mathRound(deliveredOrders * 100 * 100, totalOrders) ELSE 0

\* DatabaseStorage.getAnalytics
getAnalytics(tenantId, period) ==
  LET rows == filteredOrders(tenantId, period)
  IN [salesTrend |-> salesTrend(rows),
      orderStatusBreakdown |-> orderStatusBreakdown(rows),
      revenueTrend |-> revenueTrend(rows, period),
      topProducts |-> topProducts(rows, tenantId),
      conversionRate |-> conversionRate(rows)]

\* GET /api/dashboard/analytics?period=, behind requireTenant; a missing
\* period ("") is read as 30d
GetAnalytics(tenantId, query) ==
  LET period == IF query = "" THEN "30d" ELSE query
  IN /\ req' = [op |-> "analytics", tenantId |-> tenantId, period |-> query]
     /\ resp' = IF \E u \in DOMAIN users : users[u].tenantId = tenantId
                THEN [analytics |-> getAnalytics(tenantId, period)] @@ Reply(200, "")
                ELSE Reply(403, "Forbidden")
     /\ UNCHANGED <<tenants, products, productVariants, shippingClasses, orders>>
     /\ was' = None /\ UNCHANGED <<accounts, env, inFlight>>

\* -------------------------------------------------------------------- stats
\* Variation: revenue recognised for every order.
revenueOrdersAny(allOrders) == allOrders

\* getOrderStats / getAdminStats: allOrders.filter((o) => o.status === "delivered")
revenueOrders(allOrders) == {i \in allOrders : orders[i].status = "delivered"}

\* .reduce((sum, o) => sum + parseFloat(o.total), 0).toFixed(2), in cents; the
\* sum of whole numbers of cents is one, so toFixed has a single result
totalRevenue(allOrders) ==
  LET sum == sumOf([i \in DOMAIN orders |->
                      IF i \in revenueOrders(allOrders) THEN parseFloat(orders[i].total)
                      ELSE 0])
  IN CHOOSE cents \in toFixed2(sum) : TRUE

\* DatabaseStorage.getOrderStats
getOrderStats(tenantId) ==
  LET allOrders == {i \in DOMAIN orders : orders[i].tenantId = tenantId}
  IN [totalOrders |-> Cardinality(allOrders),
      newOrders |-> Cardinality({i \in allOrders : orders[i].status = "new"}),
      totalRevenue |-> totalRevenue(allOrders)]

\* DatabaseStorage.getAdminStats
getAdminStats ==
  [totalTenants |-> Cardinality(DOMAIN tenants),
   activeTenants |-> Cardinality({t \in DOMAIN tenants : tenants[t].status = "active"}),
   totalOrders |-> Len(orders),
   totalRevenue |-> totalRevenue(DOMAIN orders)]

\* GET /api/dashboard/stats, behind requireTenant
GetDashboardStats(tenantId) ==
  /\ req' = [op |-> "stats", tenantId |-> tenantId]
  /\ resp' = IF \E u \in DOMAIN users : users[u].tenantId = tenantId
             THEN [stats |-> [totalProducts |-> countProductsByTenant(tenantId)]
                               @@ getOrderStats(tenantId)] @@ Reply(200, "")
             ELSE Reply(403, "Forbidden")
  /\ UNCHANGED <<tenants, products, productVariants, shippingClasses, orders>>
  /\ was' = None /\ UNCHANGED <<accounts, env, inFlight>>

\* GET /api/admin/stats, behind requireAdmin
GetAdminStats ==
  /\ req' = [op |-> "adminStats"]
  /\ resp' = [stats |-> getAdminStats] @@ Reply(200, "")
  /\ UNCHANGED <<tenants, products, productVariants, shippingClasses, orders>>
  /\ was' = None /\ UNCHANGED <<accounts, env, inFlight>>

\* ----------------------------------------------------------------- inputs
Slugs == {"shop1", "shop2", "nostore"}
ProductSlugs == {"shirt", "mug"}

LocalPhone == <<"0", "1", "7", "1", "2", "3", "4", "5", "6", "7", "8">>
PrefixedPhone == <<"+", "8", "8", "0">> \o SubSeq(LocalPhone, 2, 11)
BadPhone == <<"0", "1", "2", "1", "2", "3", "4", "5", "6", "7", "8">>

GoodBody == [productId |-> "p1", customerName |-> "Al", phone |-> LocalPhone,
             address |-> "12 Lake Rd", quantity |-> 1 * QtyUnit,
             shippingClassId |-> "sc1", variantId |-> None]

\* -1, 0, the largest quantity below 1, 1, the smallest above 1, 2 and 3
Quantities == {0 - QtyUnit, 0, QtyUnit - 1, QtyUnit, QtyUnit + 1, 2 * QtyUnit, 3 * QtyUnit}

Bodies ==
     {[GoodBody EXCEPT !.productId = p, !.shippingClassId = s] :
        p \in ProductIds \cup {"nx"}, s \in ShippingClassIds \cup {"nx"}}
  \cup {[GoodBody EXCEPT !.quantity = q] : q \in Quantities}
  \cup {[GoodBody EXCEPT !.variantId = "v1", !.quantity = 2 * QtyUnit]}
  \cup {[GoodBody EXCEPT !.phone = PrefixedPhone]}
  \cup {[GoodBody EXCEPT !.phone = BadPhone, !.productId = p] : p \in {"p1", "nx"}}
  \cup {[GoodBody EXCEPT !.customerName = "A"],
        [GoodBody EXCEPT !.address = "12 Lake"],
        [GoodBody EXCEPT !.shippingClassId = ""],
        [GoodBody EXCEPT !.quantity = 0, !.productId = "nx"],
        [GoodBody EXCEPT !.quantity = QtyUnit + 1, !.productId = "nx"],
        [GoodBody EXCEPT !.customerName = "A", !.phone = BadPhone]}

\* <<storeSlug, body>> of the checkout requests
CheckoutRequests ==
     {<<"shop1", b>> : b \in Bodies}
  \cup {<<"shop2", b>> : b \in {GoodBody,
                               [GoodBody EXCEPT !.productId = "p2"],
                               [GoodBody EXCEPT !.productId = "p2", !.shippingClassId = "sc2"]}}
  \cup {<<"nostore", b>> : b \in {GoodBody, [GoodBody EXCEPT !.phone = BadPhone]}}

ProductPatches ==
  {[price |-> 3333], [price |-> 50000]} \cup {[status |-> s] : s \in productStatusEnum}

ShippingPatches == {[fee |-> 6000], [fee |-> 12000]}

\* <<caller's tenantId, id>> of the dashboard requests
ProductTargets == {<<"t1", "p1">>, <<"t2", "p1">>, <<"t1", "nx">>}
ShippingTargets == {<<"t1", "sc1">>, <<"t2", "sc1">>, <<"t1", "nx">>}
OrderIds == 1..(MaxOrders + 1)
IdLists == {<<i>> : i \in OrderIds} \cup {<<i, j>> : i, j \in OrderIds}

------------------------------------------------------------------------------
\* The storefront: public routes, catalog edits and tenant moderation.
Next ==
  \/ \E s \in Slugs : GetStore(s)
  \/ \E s \in Slugs, ps \in ProductSlugs : GetStoreProduct(s, ps)
  \/ \E r \in CheckoutRequests : PostOrder(r[1], r[2]) /\ Len(orders') <= MaxOrders
  \/ \E t \in ProductTargets, d \in ProductPatches : PatchProduct(t[1], t[2], d)
  \/ \E t \in ShippingTargets, d \in ShippingPatches : PatchShippingClass(t[1], t[2], d)
  \/ \E s \in tenantStatusEnum : AdminPatchTenantStatus("t1", s)

Spec == Init /\ [][Next]_vars

\* The ledger: orders are placed, then every later mutation is tried.
LedgerRequests ==
  {<<"shop1", b>> : b \in {GoodBody, [GoodBody EXCEPT !.quantity = 3 * QtyUnit]}}
  \cup {<<"shop2", [GoodBody EXCEPT !.productId = "p2", !.shippingClassId = "sc2"]>>}

LedgerStatuses == {"new", "confirmed", "delivered"}
PricePatches == {d \in ProductPatches : "price" \in DOMAIN d}

NextLedger ==
  \/ \E r \in LedgerRequests : PostOrder(r[1], r[2]) /\ Len(orders') <= MaxOrders
  \/ \E d \in PricePatches : PatchProduct("t1", "p1", d)
  \/ \E d \in ShippingPatches : PatchShippingClass("t1", "sc1", d)
  \/ \E t \in TenantIds, i \in OrderIds, s \in LedgerStatuses : PatchOrderStatus(t, i, s)
  \/ \E l \in IdLists, s \in LedgerStatuses : bulkUpdateOrderStatus(l, s, "t1")
  \/ \E p \in PlanIds : AdminPatchTenantPlan("t1", p)

SpecLedger == Init /\ [][NextLedger]_vars

\* Notification: checkouts while the contact email, the SMTP credentials and
\* the settings lookup change, and the mails in flight settle.
NotifyRequests ==
  {<<"shop1", GoodBody>>, <<"shop1", [GoodBody EXCEPT !.quantity = 2 * QtyUnit]>>,
   <<"shop1", [GoodBody EXCEPT !.shippingClassId = "sc2"]>>}

SettingsPatches == {[contactEmail |-> e] : e \in {"owner@shop1", "", None}}

NextNotify ==
  \/ \E r \in NotifyRequests : PostOrder(r[1], r[2]) /\ Len(orders') <= MaxOrders
  \/ \E d \in SettingsPatches : PatchStoreSettings("t1", d)
  \/ \E b \in BOOLEAN : SetSmtp(b)
  \/ \E b \in BOOLEAN : SettingsLookup(b)
  \/ \E i \in OrderIds, b \in BOOLEAN : MailSettles(i, b)

SpecNotify == Init /\ [][NextNotify]_vars

\* The dashboard: every by-id route, called by the owner and by the other
\* tenant, on existing and on unknown ids, with request bodies that name any
\* column of the row.
DashRequests ==
  {<<"shop1", GoodBody>>,
   <<"shop2", [GoodBody EXCEPT !.productId = "p2", !.shippingClassId = "sc2"]>>}

DashProductIds == {"p1", "nx"}
DashShippingIds == {"sc1", "nx"}
DashProductPatches == {[price |-> 50000]} \cup {[tenantId |-> t] : t \in TenantIds}
DashShippingPatches == {[fee |-> 12000]} \cup {[tenantId |-> t] : t \in TenantIds}
DashStatuses == {"confirmed", "cancelled"}

NextDash ==
  \/ \E r \in DashRequests : PostOrder(r[1], r[2]) /\ Len(orders') <= MaxOrders
  \/ \E t \in TenantIds, i \in DashProductIds, d \in DashProductPatches : PatchProduct(t, i, d)
  \/ \E t \in TenantIds, i \in DashProductIds : DeleteProduct(t, i)
  \/ \E t \in TenantIds, i \in DashShippingIds, d \in DashShippingPatches :
       PatchShippingClass(t, i, d)
  \/ \E t \in TenantIds, i \in DashShippingIds : DeleteShippingClass(t, i)
  \/ \E t \in TenantIds, i \in OrderIds, s \in DashStatuses : PatchOrderStatus(t, i, s)

SpecDash == Init /\ [][NextDash]_vars

\* Order status: one order per run, every label requested by both tenants.
StatusRequests == DashRequests

NextStatus ==
  \/ \E r \in StatusRequests : PostOrder(r[1], r[2]) /\ Len(orders') <= MaxOrders
  \/ \E t \in TenantIds, i \in OrderIds, s \in orderStatusEnum : PatchOrderStatus(t, i, s)

SpecStatus == Init /\ [][NextStatus]_vars

\* Batches: up to MaxBatch orders of the two tenants, bulk updates by both
\* over lists of up to three ids in ascending order (repeated and unknown ids
\* included), and single status updates in between.
BatchIds == 1..(MaxBatch + 1)
BatchLists ==
  {<<i>> : i \in BatchIds}
  \cup {l \in {<<i, j>> : i, j \in BatchIds} : l[1] <= l[2]}
  \cup {l \in {<<i, j, k>> : i, j, k \in BatchIds} : l[1] <= l[2] /\ l[2] <= l[3]}

NextBatch ==
  \/ \E r \in DashRequests : PostOrder(r[1], r[2]) /\ Len(orders') <= MaxBatch
  \/ \E l \in BatchLists, t \in TenantIds : bulkUpdateOrderStatus(l, "confirmed", t)
  \/ \E i \in BatchIds : PatchOrderStatus("t2", i, "delivered")

SpecBatch == Init /\ [][NextBatch]_vars

\* The catalog under plan limits: one tenant creates products, one request
\* at a time, while the administrator edits the plan's limit and moves the
\* tenant between plans.
NewProduct == [name |-> "Cap", slug |-> "cap", price |-> 1000, status |-> "draft"]
PlanLimits == {0, 1, 2}

NextCatalog ==
  \/ ProductsBegin(1, "t1", NewProduct)
  \/ ProductsCount(1)
  \/ ProductsFinish(1)
  \/ \E n \in PlanLimits : AdminPatchPlan("pro", [productLimit |-> n])
  \/ \E p \in PlanIds : AdminPatchTenantPlan("t1", p)
  \/ PostOrder("shop1", GoodBody) /\ Len(orders') <= MaxOrders

SpecCatalog == Init /\ [][NextCatalog]_vars

\* The race: up to MaxRequests creation requests of one tenant in flight at a
\* time, their awaited steps interleaved in every order.  The limit is edited
\* only between races and only to a value the tenant's count does not exceed.
RaceIds == 1..MaxRequests

NextRace ==
  \/ \E rid \in RaceIds : ProductsBegin(rid, "t1", NewProduct)
  \/ \E rid \in RaceIds : ProductsCount(rid)
  \/ \E rid \in RaceIds : ProductsFinish(rid)
  \/ DeleteProduct("t1", "p1")
  \/ \E n \in PlanLimits :
       /\ creating = << >>
       /\ countProductsByTenant("t1") <= n
       /\ AdminPatchPlan("free", [productLimit |-> n])

SpecRace == Init /\ [][NextRace]_vars

\* The empty database, before any registration.
InitFresh ==
  /\ tenants = << >> /\ products = << >> /\ productVariants = << >>
  /\ shippingClasses = << >> /\ orders = << >>
  /\ plans = << >> /\ users = << >> /\ storeSettings = << >> /\ domainMappings = << >>
  /\ req = [op |-> "none"]
  /\ resp = Reply(0, "")
  /\ env = [smtp |-> TRUE, settingsFault |-> FALSE, now |-> Now, tz |-> 0]
  /\ outbox = << >>
  /\ creating = << >>
  /\ deleting = [id |-> None, step |-> 0]
  /\ was = None

\* Bootstrap: registrations, one after the other, while the administrator
\* activates and deactivates plans; the new stores are then visited.
RegisterBodies ==
  {[email |-> e, password |-> "hunter22", storeName |-> "Shop", storeSlug |-> s] :
     e \in {"a@shop1", "b@shop2", "c@shop3"}, s \in {"shop1", "shop2"}}
  \cup {[email |-> "a@shop1", password |-> "short", storeName |-> "Shop",
         storeSlug |-> "shop1"]}

NextBootstrap ==
  \/ \E b \in RegisterBodies : Register(b)
  \/ \E p \in DOMAIN plans, b \in BOOLEAN : AdminPatchPlan(p, [isActive |-> b])
  \/ \E s \in Slugs : GetStore(s)

SpecBootstrap == InitFresh /\ [][NextBootstrap]_vars


\* Tenant deletion by the administrator, one statement at a time, while
\* shop1 takes orders and its tenant, moved to the plan that allows them,
\* adds custom domains.
DomainBodies ==
  {[domain |-> d] : d \in {<<"a", ".", "c", "o">>, <<" ", "A", ".", "c", "o">>,
                           <<"a", ".", "c">>, <<"-", "a", ".", "c", "o">>, << >>}}

NextDelete ==
  \/ \E id \in TenantIds : AdminDeleteTenant(id)
  \/ deleteTenant
  \/ PostOrder("shop1", GoodBody) /\ Len(orders') <= MaxOrders
  \/ AdminPatchTenantPlan("t1", "pro")
  \/ \E b \in DomainBodies : PostDomain("t1", b)

SpecDelete == Init /\ [][NextDelete]_vars


\* Analytics: a table of up to MaxRows orders, placed three months back to an
\* hour ago, on a server in one of three time zones; both tenants then ask
\* for the report of every period.  The instants, oldest first: 91 and 31
\* days ago, an hour before and exactly at the 7-day cutoff, Saturday 22:00Z,
\* Sunday 01:00Z and an hour ago.
Instants ==
  <<Now - 91 * HoursPerDay, Now - 31 * HoursPerDay, Now - 7 * HoursPerDay - 1,
    Now - 7 * HoursPerDay, 100 * HoursPerDay + 22, 101 * HoursPerDay + 1, Now - 1>>

AnalyticsStatuses == <<"new", "confirmed", "delivered">>

\* An order as checkout stores it, of the given tenant, instant and status;
\* totals are 100.00, 200.00 and 300.00 by status.
OrderRow(tenantId, productId, at, status) ==
  LET total == CASE status = "new" -> 10000 [] status = "confirmed" -> 20000
                 [] OTHER -> 30000
  IN [id |-> 0, tenantId |-> tenantId, productId |-> productId, variantId |-> None,
      quantity |-> 1, shippingClassId |-> IF tenantId = "t1" THEN "sc1" ELSE "sc2",
      shippingFee |-> 6000, subtotal |-> total - 6000, total |-> total,
      status |-> status, createdAt |-> at]

\* The rows a table is drawn from, oldest first: orders of t1 at every
\* instant in every status, on p1 and p3 in turn, and two orders of t2.
CandidateRows ==
  [n \in 1..(Len(Instants) * 3) |->
     OrderRow("t1", IF n % 2 = 0 THEN "p1" ELSE "p3",
              Instants[((n - 1) \div 3) + 1], AnalyticsStatuses[((n - 1) % 3) + 1])]
  \o <<OrderRow("t2", "p2", Now - 91 * HoursPerDay, "delivered"),
       OrderRow("t2", "p2", Now - 1, "delivered")>>

OrderTables ==
  LET picks == UNION {[1..n -> DOMAIN CandidateRows] : n \in 0..MaxRows}
  IN {[k \in DOMAIN l |-> [CandidateRows[l[k]] EXCEPT !.id = k]] :
        l \in {p \in picks : \A k \in 1..(Len(p) - 1) : p[k] < p[k + 1]}}

TimeZones == {0 - 5, 0, 6}
Periods == {"7d", "30d", "90d", "all", ""}

InitAnalytics ==
  /\ tenants = [t \in TenantIds |->
                  [slug |-> IF t = "t1" THEN "shop1" ELSE "shop2",
                   planId |-> "free", status |-> "active"]]
  /\ products = [p \in ProductIds \cup {"p3"} |->
                  [tenantId |-> IF p = "p2" THEN "t2" ELSE "t1",
                   name |-> IF p = "p1" THEN "Shirt" ELSE IF p = "p2" THEN "Mug" ELSE "Hat",
                   slug |-> IF p = "p1" THEN "shirt" ELSE IF p = "p2" THEN "mug" ELSE "hat",
                   price |-> 4000, status |-> "active"]]
  /\ productVariants = << >>
  /\ shippingClasses = [s \in ShippingClassIds |->
                  [tenantId |-> IF s = "sc1" THEN "t1" ELSE "t2", fee |-> 6000]]
  /\ orders \in OrderTables
  /\ req = [op |-> "none"]
  /\ resp = Reply(0, "")
  /\ plans = [p \in {"free"} |->
                [productLimit |-> 5, allowCustomDomain |-> FALSE,
                 allowTracking |-> TRUE, price |-> 0, isActive |-> TRUE]]
  /\ users = [u \in {"u1", "u2"} |->
                [email |-> IF u = "u1" THEN "a@shop1" ELSE "b@shop2",
                 tenantId |-> IF u = "u1" THEN "t1" ELSE "t2"]]
  /\ storeSettings = [t \in TenantIds |-> [contactEmail |-> None]]
  /\ domainMappings = << >>
  /\ env \in {[smtp |-> TRUE, settingsFault |-> FALSE, now |-> Now, tz |-> z] :
                z \in TimeZones}
  /\ outbox = << >>
  /\ creating = << >>
  /\ deleting = [id |-> None, step |-> 0]
  /\ was = None

NextAnalytics ==
  \E t \in TenantIds, q \in Periods : GetAnalytics(t, q)

SpecAnalytics == InitAnalytics /\ [][NextAnalytics]_vars


\* Top products: tenant t1 with a catalog of up to MaxCatalog products, each
\* ordered once for 100.00 or 200.00 in statuses that vary along the table,
\* the first product possibly ordered a second time.
CatalogIds(n) == {"c" \o ToString(k) : k \in 1..n}

CatalogStatuses == <<"new", "confirmed", "shipped", "delivered", "cancelled">>

CatalogTables ==
  UNION {
    {[k \in 1..(n + extra) |->
        [OrderRow("t1", "c" \o ToString(IF k > n THEN 1 ELSE k), Now - 1,
                  CatalogStatuses[(k % 5) + 1])
           EXCEPT !.id = k, !.total = totals[IF k > n THEN 1 ELSE k],
                  !.subtotal = totals[IF k > n THEN 1 ELSE k] - 6000]] :
       totals \in [1..n -> {10000, 20000}], extra \in {0, 1}} :
    n \in (MaxCatalog - 3)..MaxCatalog}

InitTop ==
  /\ tenants = [t \in {"t1"} |-> [slug |-> "shop1", planId |-> "free", status |-> "active"]]
  /\ products = [p \in CatalogIds(MaxCatalog) |->
                  [tenantId |-> "t1", name |-> p, slug |-> p, price |-> 4000,
                   status |-> "active"]]
  /\ productVariants = << >>
  /\ shippingClasses = [s \in {"sc1"} |-> [tenantId |-> "t1", fee |-> 6000]]
  /\ orders \in CatalogTables
  /\ req = [op |-> "none"]
  /\ resp = Reply(0, "")
  /\ plans = [p \in {"free"} |->
                [productLimit |-> MaxCatalog, allowCustomDomain |-> FALSE,
                 allowTracking |-> TRUE, price |-> 0, isActive |-> TRUE]]
  /\ users = [u \in {"u1"} |-> [email |-> "a@shop1", tenantId |-> "t1"]]
  /\ storeSettings = [t \in {"t1"} |-> [contactEmail |-> None]]
  /\ domainMappings = << >>
  /\ env = [smtp |-> TRUE, settingsFault |-> FALSE, now |-> Now, tz |-> 0]
  /\ outbox = << >>
  /\ creating = << >>
  /\ deleting = [id |-> None, step |-> 0]
  /\ was = None

NextTop == GetAnalytics("t1", "all")

SpecTop == InitTop /\ [][NextTop]_vars


\* Stats: both stores take orders, their tenants move them between new,
\* delivered and cancelled, and the tenants and the administrator read the
\* stats in between.
StatsStatuses == {"new", "delivered", "cancelled"}

NextStats ==
  \/ \E r \in DashRequests : PostOrder(r[1], r[2]) /\ Len(orders') <= MaxOrders + 1
  \/ \E t \in TenantIds, i \in 1..(MaxOrders + 1), s \in StatsStatuses :
       PatchOrderStatus(t, i, s)
  \/ \E t \in TenantIds : GetDashboardStats(t)
  \/ GetAdminStats

SpecStats == Init /\ [][NextStats]_vars


\* Custom domains: the administrator moves both tenants between plans and
\* switches the plans' custom-domain flag, while the tenants register domain
\* names: well formed ones in either case and with outer blanks, too short
\* ones, malformed ones and none.
DomainNames ==
  {<<"a", ".", "c", "o">>, <<" ", "A", ".", "c", "o">>, <<"a", ".", "C", "O", " ">>,
   <<"b", ".", "c", "o">>, <<"a", ".", "c">>, <<"-", "a", ".", "c", "o">>,
   <<"a", "-", ".", "c", "o">>, <<"a", ".", ".", "c", "o">>, <<"a", "_", ".", "c", "o">>,
   << >>}

NextDomains ==
  \/ \E t \in TenantIds, p \in PlanIds : AdminPatchTenantPlan(t, p)
  \/ \E p \in PlanIds, b \in BOOLEAN : AdminPatchPlan(p, [allowCustomDomain |-> b])
  \/ \E t \in TenantIds, d \in DomainNames : PostDomain(t, [domain |-> d])

SpecDomains == Init /\ [][NextDomains]_vars


\* Registrations that overlap: up to MaxRequests calls in flight on the empty
\* database, for two e-mail addresses and two store slugs.
OverlapBodies ==
  {[email |-> e, password |-> "hunter22", storeName |-> "Shop", storeSlug |-> s] :
     e \in {"a@shop1", "b@shop2"}, s \in {"shop1", "shop2"}}
  \cup {[email |-> "a@shop1", password |-> "short", storeName |-> "Shop",
         storeSlug |-> "shop1"]}

NextRegister ==
  \/ \E rid \in RaceIds, b \in OverlapBodies : RegisterBegin(rid, b)
  \/ \E rid \in RaceIds : RegisterEmail(rid)
  \/ \E rid \in RaceIds : RegisterSlug(rid)
  \/ \E rid \in RaceIds : RegisterPlans(rid)
  \/ \E rid \in RaceIds : RegisterCreatePlan(rid)
  \/ \E rid \in RaceIds : RegisterCreateTenant(rid)
  \/ \E rid \in RaceIds : RegisterCreateUser(rid)
  \/ \E rid \in RaceIds : RegisterSettings(rid)
  \/ \E rid \in RaceIds : RegisterInside(rid)
  \/ \E rid \in RaceIds : RegisterOutside(rid)

SpecRegister == InitFresh /\ [][NextRegister]_vars

------------------------------------------------------------------------------
\* Properties.  The predicates below restate the specification's conditions
\* directly on the tables, independently of the route guards above.

TenantActive(slug) ==
  \E t \in DOMAIN tenants : tenants[t].slug = slug /\ tenants[t].status = "active"

TenantOf(slug) == CHOOSE t \in DOMAIN tenants : tenants[t].slug = slug

\* C1: every persisted order has total = subtotal + shipping_fee, the three
\* stored two-decimal amounts compared exactly.
C1_TotalIsSubtotalPlusFee ==
  \A i \in DOMAIN orders : orders[i].total = orders[i].subtotal + orders[i].shippingFee

\* 33.33 x 3 + 60.00 = 159.99, and a quantity-1 order
C1_Witness ==
  /\ \E i \in DOMAIN orders :
       orders[i].quantity = 3 /\ orders[i].subtotal = 9999 /\ orders[i].total = 15999
  /\ req.op = "checkout"

\* C2: the order a checkout creates stores subtotal = unit price read at
\* submission x submitted quantity and shipping_fee = the selected shipping
\* class's fee at that time, exactly.
C2_SubtotalAndFeeExact ==
  (req.op = "checkout" /\ resp.code = 200) =>
     /\ resp.order \in DOMAIN orders
     /\ LET o == orders[resp.order]
        IN /\ o.productId = req.body.productId
           /\ o.shippingClassId = req.body.shippingClassId
           /\ o.quantity * QtyUnit = req.body.quantity
           /\ o.subtotal = products[o.productId].price * o.quantity
           /\ o.shippingFee = shippingClasses[o.shippingClassId].fee

\* price 500.00, quantity 2, fee 60.00 => subtotal 1000.00, total 1060.00, new
C2_Witness ==
  /\ req.op = "checkout" /\ resp.code = 200
  /\ products["p1"].price = 50000
  /\ LET o == orders[resp.order]
     IN o.quantity = 2 /\ o.subtotal = 100000 /\ o.shippingFee = 6000
        /\ o.total = 106000 /\ o.status = "new"

\* C3: once an order exists, no later operation changes any of its fields
\* other than status (and no operation of the ledger removes it).
OrderIdentity(o) ==
  <<o.id, o.tenantId, o.productId, o.variantId, o.shippingClassId,
    o.quantity, o.subtotal, o.shippingFee, o.total>>

C3_OnlyStatusChanges ==
  [][\A i \in DOMAIN orders :
        i \in DOMAIN orders' /\ OrderIdentity(orders'[i]) = OrderIdentity(orders[i])]_vars

\* an order whose status moved while price, fee and plan all changed after it
C3_Witness ==
  \E i \in DOMAIN orders :
     /\ orders[i].status = "delivered"
     /\ orders[i].tenantId = "t1"
     /\ products[orders[i].productId].price * orders[i].quantity # orders[i].subtotal
     /\ shippingClasses[orders[i].shippingClassId].fee # orders[i].shippingFee
     /\ tenants["t1"].planId = "pro"

\* The validation steps of checkout as the specification words them.
SpecInputOk(body) ==
  /\ checkoutIssues(body) = <<>>
  /\ body.quantity >= QtyUnit /\ body.quantity % QtyUnit = 0

SpecProductOk(slug, body) ==
  \E t \in DOMAIN tenants :
     /\ tenants[t].slug = slug
     /\ body.productId \in DOMAIN products
     /\ products[body.productId].tenantId = t
     /\ products[body.productId].status = "active"

SpecShippingOk(slug, body) ==
  \E t \in DOMAIN tenants :
     /\ tenants[t].slug = slug
     /\ body.shippingClassId \in DOMAIN shippingClasses
     /\ shippingClasses[body.shippingClassId].tenantId = t

SpecValid(slug, body) ==
  TenantActive(slug) /\ SpecInputOk(body) /\ SpecProductOk(slug, body)
  /\ SpecShippingOk(slug, body)

\* C4: a checkout that passes every validation step inserts exactly one order,
\* with status new; one that fails any step (tenant, input format, product,
\* shipping class) inserts none and leaves the existing orders as they were.
C4_ValidInsertsOneInvalidNone ==
  [][req'.op = "checkout" =>
       IF SpecValid(req'.storeSlug, req'.body)
       THEN /\ Len(orders') = Len(orders) + 1
            /\ SubSeq(orders', 1, Len(orders)) = orders
            /\ orders'[Len(orders')].status = "new"
       ELSE orders' = orders]_vars

\* C5: a public slug-scoped request on a slug with no tenant, or with a
\* suspended or pending tenant, is answered NotFound with no tenant data and
\* creates no order.
C5_InactiveTenantNotFound ==
  [][(req'.op \in {"store", "product", "checkout"} /\ ~TenantActive(req'.storeSlug)) =>
       (resp' = Reply(404, "Store not found") /\ orders' = orders)]_vars

\* the checkout that succeeded before is refused once t1 is suspended
C5_Witness ==
  /\ tenants["t1"].status = "suspended"
  /\ req.op = "checkout" /\ req.storeSlug = "shop1" /\ req.body = GoodBody
  /\ resp.code = 404
  /\ Len(orders) = 1 /\ orders[1].tenantId = "t1"

\* C6: a draft or archived product is not in the store listing, reads as
\* NotFound by slug, and a checkout naming it fails NotFound with no order.
C6_InactiveProductNeverUsable ==
  /\ (req.op = "store" /\ resp.code = 200) =>
        \A p \in resp.products : products[p].status = "active"
  /\ (req.op = "product" /\ TenantActive(req.storeSlug)
        /\ \E p \in DOMAIN products :
              /\ products[p].tenantId = TenantOf(req.storeSlug)
              /\ products[p].slug = req.productSlug
              /\ products[p].status # "active") =>
        (resp.code = 404 /\ resp.products = {})
  /\ (req.op = "checkout" /\ TenantActive(req.storeSlug) /\ SpecInputOk(req.body)
        /\ req.body.productId \in DOMAIN products
        /\ products[req.body.productId].status # "active") =>
        (resp.code = 404 /\ resp.order = 0)

\* C7: with tenant, input and product valid, a shipping class id that does not
\* exist or is another tenant's gets 400 "Invalid shipping option" (the same
\* reply in both cases) and no order is created.
C7_InvalidShippingOption ==
  [][(/\ req'.op = "checkout"
      /\ TenantActive(req'.storeSlug)
      /\ SpecInputOk(req'.body)
      /\ SpecProductOk(req'.storeSlug, req'.body)
      /\ ~SpecShippingOk(req'.storeSlug, req'.body)) =>
       (resp' = Reply(400, "Invalid shipping option") /\ orders' = orders)]_vars

\* another tenant's shipping class on an otherwise valid checkout
C7_Witness ==
  /\ req.op = "checkout" /\ req.storeSlug = "shop1"
  /\ SpecInputOk(req.body) /\ SpecProductOk("shop1", req.body)
  /\ req.body.shippingClassId = "sc2"
  /\ shippingClasses["sc2"].tenantId = "t2"
  /\ resp.code = 400 /\ resp.message = "Invalid shipping option"

\* C8: a checkout that violates several validation steps at once is answered
\* with the outcome of the earliest one in the order tenant, input format,
\* product, shipping class.
Violations(slug, body) ==
  (IF TenantActive(slug) THEN {} ELSE {"tenant"})
  \cup (IF SpecInputOk(body) THEN {} ELSE {"input"})
  \cup (IF SpecProductOk(slug, body) THEN {} ELSE {"product"})
  \cup (IF SpecShippingOk(slug, body) THEN {} ELSE {"shipping"})

C8_EarliestViolationReported ==
  (req.op = "checkout" /\ Cardinality(Violations(req.storeSlug, req.body)) >= 2) =>
     LET v == Violations(req.storeSlug, req.body)
     IN /\ resp.order = 0
        /\ resp.code = IF "tenant" \in v THEN 404
                       ELSE IF "input" \in v THEN 400
                       ELSE 404

\* C9: a quantity that is zero, negative or not an integer is rejected as
\* InvalidInput with no order, so every persisted quantity is an integer >= 1.
C9_QuantityPositiveInteger ==
  /\ (req.op = "checkout" /\ TenantActive(req.storeSlug)
        /\ (req.body.quantity < QtyUnit \/ req.body.quantity % QtyUnit # 0)) =>
        (resp.code = 400 /\ resp.order = 0)
  /\ \A i \in DOMAIN orders : orders[i].quantity >= 1

\* C10: with a variant id that resolves to a variant of the ordered product
\* the subtotal is variant.price x quantity and the order records the variant;
\* with no variant id it is product.price x quantity.
C10_VariantPricing ==
  (req.op = "checkout" /\ resp.code = 200) =>
     LET o == orders[resp.order]
         v == req.body.variantId
     IN IF v \in DOMAIN productVariants /\ productVariants[v].productId = o.productId
        THEN o.subtotal = productVariants[v].price * o.quantity /\ o.variantId = v
        ELSE v = None => o.subtotal = products[o.productId].price * o.quantity

\* C11: once checkout has inserted the order, nothing in the notification step
\* (no contact email, settings lookup failure, SMTP not configured, send
\* failure) turns the caller's result into a failure or removes the order; the
\* notification is attempted at most once per order, and only when the
\* tenant's settings carry a contact email.
C11_NotificationNeverAffectsOrder ==
  [][/\ Len(orders') > Len(orders) => resp'.code = 200
     /\ SubSeq(orders', 1, Len(orders)) = orders
     /\ (outbox' # outbox /\ Len(orders') = Len(orders)) => resp' = resp
     /\ \A i \in DOMAIN outbox' :
          /\ outbox'[i].calls <= 1
          /\ i \notin DOMAIN outbox =>
               /\ i \in DOMAIN orders' /\ i \notin DOMAIN orders
               /\ orders'[i].tenantId \in DOMAIN storeSettings
               /\ storeSettings[orders'[i].tenantId].contactEmail \notin {None, ""}]_vars

\* C12: an authenticated by-id operation on an order (status update), a
\* product (update, delete) or a shipping class (update, delete) whose id names
\* another tenant's entity gets the very reply an unknown id gets (NotFound),
\* and the addressed entity is left unchanged.
C12_ForeignIdIsNotFound ==
  [][/\ (/\ req'.op \in {"patchProduct", "deleteProduct"}
         /\ (req'.id \notin DOMAIN products \/ products[req'.id].tenantId # req'.tenantId))
          => /\ resp' = Reply(404, "Product not found")
             /\ products' = products /\ productVariants' = productVariants
     /\ (/\ req'.op \in {"patchShipping", "deleteShipping"}
         /\ (req'.id \notin DOMAIN shippingClasses
             \/ shippingClasses[req'.id].tenantId # req'.tenantId))
          => (resp' = Reply(404, "Shipping class not found")
              /\ shippingClasses' = shippingClasses)
     /\ (/\ req'.op = "patchOrder"
         /\ (req'.id \notin DOMAIN orders \/ orders[req'.id].tenantId # req'.tenantId))
          => (resp' = Reply(404, "Order not found") /\ orders' = orders)]_vars

\* the other tenant's status update of an order that exists
C12_Witness ==
  /\ req.op = "patchOrder" /\ req.tenantId = "t2"
  /\ req.id \in DOMAIN orders /\ orders[req.id].tenantId = "t1"
  /\ orders[req.id].status = "new"
  /\ resp = Reply(404, "Order not found")

\* C13: a status update by the owning tenant is accepted for every ordered
\* pair (current, target) of the five labels, regressions included, and leaves
\* the order with the target status; no transition is rejected.
C13_AnyTransitionAccepted ==
  [][(/\ req'.op = "patchOrder"
      /\ req'.id \in DOMAIN orders
      /\ orders[req'.id].tenantId = req'.tenantId
      /\ orders[req'.id].status \in orderStatusEnum
      /\ req'.status \in orderStatusEnum)
       => (/\ resp'.code = 200
           /\ req'.id \in DOMAIN orders'
           /\ orders'[req'.id].status = req'.status)]_vars

\* delivered -> new, accepted
C13_Witness ==
  /\ req.op = "patchOrder" /\ req.status = "new" /\ was = "delivered"
  /\ resp.code = 200
  /\ orders[req.id].status = "new" /\ orders[req.id].tenantId = req.tenantId

\* C14: a bulk status update whose id set holds an id that does not exist or
\* belongs to another tenant fails as a whole and changes no order's status;
\* and no bulk update, whatever ran before it, changes an order owned by a
\* tenant other than the caller.
C14_BulkAllOrNothing ==
  [][req'.op = "bulkStatus" =>
       /\ (\E k \in DOMAIN req'.ids :
             \/ req'.ids[k] \notin DOMAIN orders
             \/ orders[req'.ids[k]].tenantId # req'.tenantId)
            => (orders' = orders /\ resp'.code # 200)
       /\ \A i \in DOMAIN orders :
            orders[i].tenantId # req'.tenantId =>
              (i \in DOMAIN orders' /\ orders'[i] = orders[i])]_vars

\* three ids, one of them the other tenant's: rejected, all three still new
C14_Witness ==
  /\ req.op = "bulkStatus" /\ req.tenantId = "t1" /\ req.status = "confirmed"
  /\ Len(req.ids) = 3 /\ Len(orders) = 3
  /\ Cardinality({req.ids[k] : k \in DOMAIN req.ids}) = 3
  /\ Cardinality({i \in DOMAIN orders : orders[i].tenantId = "t2"}) = 1
  /\ \A i \in DOMAIN orders : orders[i].status = "new"
  /\ resp.code = 500

ProductCount(tenantId) ==
  Cardinality({p \in DOMAIN products : products[p].tenantId = tenantId})

PlanLimit(tenantId) == plans[tenants[tenantId].planId].productLimit

\* a creation request that saw the tenant's current plan and product count
SawCurrent(call) ==
  /\ call.plan.id = tenants[call.tenantId].planId
  /\ call.plan.productLimit = PlanLimit(call.tenantId)
  /\ call.productCount = ProductCount(call.tenantId)

\* C15: a product creation is accepted if and only if the tenant's product
\* count (all statuses) is strictly below the productLimit of the tenant's
\* plan, whatever the limit (0 included); a rejected attempt inserts no
\* product and its message names the plan's limit.
C15_CreationIffBelowLimit ==
  [][\A rid \in DOMAIN creating :
       (rid \notin DOMAIN creating' /\ SawCurrent(creating[rid])) =>
          LET t == creating[rid].tenantId
          IN IF ProductCount(t) < PlanLimit(t)
             THEN /\ resp'.code = 200
                  /\ Cardinality(DOMAIN products') = Cardinality(DOMAIN products) + 1
                  /\ \A p \in DOMAIN products : p \in DOMAIN products' /\ products'[p] = products[p]
                  /\ \A p \in DOMAIN products' \ DOMAIN products : products'[p].tenantId = t
             ELSE /\ products' = products
                  /\ resp'.code = 403
                  /\ resp'.message = "Product limit reached (" \o ToString(PlanLimit(t))
                                       \o "). Please upgrade your plan."]_vars

\* C16: with N creation requests of one tenant interleaved step by step (read
\* the count, check it, insert), starting from a count at or below the limit
\* and with the plan unchanged meanwhile, the tenant's product count never
\* exceeds productLimit + (N - 1).
C16_OvershootAtMostNMinusOne ==
  ProductCount("t1") <= PlanLimit("t1") + (MaxRequests - 1)

\* C17: moving a tenant to a plan with a lower productLimit deletes and alters
\* none of its products or orders, even when the product count exceeds the new
\* limit; the next creation request is decided against the new plan's limit.
C17_ReassignmentNotRetroactive ==
  [][/\ req'.op = "tenantPlan" => (products' = products /\ orders' = orders)
     /\ \A rid \in DOMAIN creating :
          (/\ rid \notin DOMAIN creating'
           /\ creating[rid].plan.id = tenants[creating[rid].tenantId].planId
           /\ creating[rid].plan.productLimit = PlanLimit(creating[rid].tenantId))
            => (products' # products
                  <=> creating[rid].productCount < PlanLimit(creating[rid].tenantId))]_vars

C19_OrderRefsSameTenant ==
  \A i \in DOMAIN orders :
     /\ orders[i].productId \in DOMAIN products
     /\ products[orders[i].productId].tenantId = orders[i].tenantId
     /\ orders[i].shippingClassId \in DOMAIN shippingClasses
     /\ shippingClasses[orders[i].shippingClassId].tenantId = orders[i].tenantId


\* The tables in the order in which a tenant's rows are to go.
DeletionOrder == <<"orders", "products", "shippingClasses", "storeSettings",
                   "domainMappings", "users", "tenants">>

TableOf(table) ==
  CASE table = "orders" -> orders
    [] table = "products" -> products
    [] table = "shippingClasses" -> shippingClasses
    [] table = "storeSettings" -> storeSettings
    [] table = "domainMappings" -> domainMappings
    [] table = "users" -> users
    [] table = "tenants" -> tenants

\* What a tenant still owns: orders, products, shipping classes, settings,
\* domain records, users, and the tenant itself.
Remains(id) ==
  \/ \E i \in DOMAIN orders : orders[i].tenantId = id
  \/ \E p \in DOMAIN products : products[p].tenantId = id
  \/ \E s \in DOMAIN shippingClasses : shippingClasses[s].tenantId = id
  \/ id \in DOMAIN storeSettings
  \/ \E m \in DOMAIN domainMappings : domainMappings[m].tenantId = id
  \/ \E u \in DOMAIN users : users[u].tenantId = id
  \/ id \in DOMAIN tenants

RemainsIn(table, id) ==
  CASE table = "orders" -> \E i \in DOMAIN orders : orders[i].tenantId = id
    [] table = "products" -> \E p \in DOMAIN products : products[p].tenantId = id
    [] table = "shippingClasses" ->
         \E s \in DOMAIN shippingClasses : shippingClasses[s].tenantId = id
    [] table = "storeSettings" -> id \in DOMAIN storeSettings
    [] table = "domainMappings" ->
         \E m \in DOMAIN domainMappings : domainMappings[m].tenantId = id
    [] table = "users" -> \E u \in DOMAIN users : users[u].tenantId = id
    [] table = "tenants" -> id \in DOMAIN tenants

\* No row references a row that is not there.
NoDanglingReference ==
  /\ \A i \in DOMAIN orders :
        /\ orders[i].tenantId \in DOMAIN tenants
        /\ orders[i].productId \in DOMAIN products
        /\ orders[i].shippingClassId \in DOMAIN shippingClasses
  /\ \A p \in DOMAIN products : products[p].tenantId \in DOMAIN tenants
  /\ \A v \in DOMAIN productVariants : productVariants[v].productId \in DOMAIN products
  /\ \A s \in DOMAIN shippingClasses : shippingClasses[s].tenantId \in DOMAIN tenants
  /\ \A t \in DOMAIN storeSettings : t \in DOMAIN tenants
  /\ \A m \in DOMAIN domainMappings : domainMappings[m].tenantId \in DOMAIN tenants
  /\ \A u \in DOMAIN users : users[u].tenantId \in DOMAIN tenants

\* The n-th statement of a deletion of id has just been applied.
StatementApplied(id, n) ==
  /\ deleting = [id |-> id, step |-> n]
  /\ \/ deleting' = [id |-> id, step |-> n + 1]
     \/ n = 7 /\ deleting'.step = 0 /\ resp'.code = 200

\* The n-th statement removes the tenant's rows of the n-th table of the
\* order, and touches no other of these tables.
StatementsInOrder ==
  \A id \in TenantIds, n \in 1..7 :
     StatementApplied(id, n) =>
        /\ ~ RemainsIn(DeletionOrder[n], id)'
        /\ \A m \in (1..7) \ {n} : TableOf(DeletionOrder[m])' = TableOf(DeletionOrder[m])

\* A call of deleteTenant has just ended, with or without an exception.
DeletionEnded == req.op = "deleteTenant"

\* C20: deleteTenant removes the tenant's rows in the order orders, products,
\* shipping classes, store settings, domain records, users, tenant; after
\* every statement no remaining row references a deleted one; and once the
\* call is over nothing the tenant owned remains, also when a checkout for
\* that tenant ran between two of its statements.
C20_DeleteTenantLeavesNothing ==
  [][ /\ StatementsInOrder
      /\ NoDanglingReference'
      /\ (DeletionEnded => ~ Remains(req.id))' ]_vars

\* The days a period reaches back; "all" reaches back to the epoch.
PeriodDays == [p \in {"7d", "30d", "90d"} |->
                 CASE p = "7d" -> 7 [] p = "30d" -> 30 [] OTHER -> 90]

\* The orders of a tenant created at or after the cutoff of a period.
Window(tenantId, period) ==
  {i \in DOMAIN orders :
     /\ orders[i].tenantId = tenantId
     /\ \/ period = "all"
        \/ /\ period \in DOMAIN PeriodDays
           /\ orders[i].createdAt + PeriodDays[period] * 24 >= env.now}

\* The table with only the orders of a window, in table order.
WindowRows(tenantId, period) ==
  LET inWindow(o) == \E i \in Window(tenantId, period) : orders[i] = o
  IN SelectSeq(orders, inWindow)

\* The report just served for one of the four periods.
Reported(period) ==
  /\ req.op = "analytics" /\ req.period = period /\ resp.code = 200

\* C21: the report for tenantId and a period 7d, 30d, 90d or all is what the
\* views give on exactly the tenant's orders with created_at >= cutoff (now
\* minus 7, 30, 90 days, or the epoch): every view counts each of these and
\* nothing else, so other tenants' and older orders change no field.
C21_ReportOverWindowOnly ==
  \A period \in {"7d", "30d", "90d", "all"} :
     Reported(period) =>
        LET rows == WindowRows(req.tenantId, period)
            report == resp.analytics
            n == Cardinality(Window(req.tenantId, period))
        IN /\ report.salesTrend = salesTrend(rows)
           /\ report.orderStatusBreakdown = orderStatusBreakdown(rows)
           /\ report.revenueTrend = revenueTrend(rows, period)
           /\ report.topProducts = topProducts(rows, req.tenantId)
           /\ report.conversionRate = conversionRate(rows)
           /\ sumOf([k \in DOMAIN report.salesTrend |-> report.salesTrend[k].orders]) = n
           /\ sumOf([k \in DOMAIN report.orderStatusBreakdown |->
                       report.orderStatusBreakdown[k].count]) = n
           /\ sumOf([k \in DOMAIN report.revenueTrend |-> report.revenueTrend[k].orders]) = n
           /\ sumOf([k \in DOMAIN report.topProducts |-> report.topProducts[k].orders]) = n

\* A 7-day report of t1 over a table holding an order of t2, an order of t1
\* exactly at the cutoff and one an hour older.
C21_Witness ==
  /\ Reported("7d") /\ req.tenantId = "t1"
  /\ \E i, j, k \in DOMAIN orders :
        /\ orders[i].tenantId = "t2"
        /\ orders[j].tenantId = "t1" /\ orders[j].createdAt = env.now - 7 * 24
        /\ orders[k].tenantId = "t1" /\ orders[k].createdAt = env.now - 7 * 24 - 1
  /\ Len(resp.analytics.salesTrend) = 1

\* The sum of the totals, in cents, of the orders of a set.
TotalCents(set) ==
  sumOf([i \in DOMAIN orders |-> IF i \in set THEN orders[i].total ELSE 0])

\* A report number that stands for an amount of cents.
IsCents(number, cents) == number = cents * QtyUnit

DayOf(i) == orders[i].createdAt \div 24

\* Day 0, 1970-01-01, was a Thursday; Sunday is weekday 0.
IsSunday(day) == (day + 4) % 7 = 0

\* The most recent Sunday on or before a day.
SundayOnOrBefore(day) == CHOOSE d \in (day - 6)..day : IsSunday(d)

\* The bucket an order belongs to: its day for 7d, its week's Sunday otherwise.
BucketOf(i, period) == IF period = "7d" THEN DayOf(i) ELSE SundayOnOrBefore(DayOf(i))

\* C23: in the revenue trend each window order is counted in the bucket
\* keyed by its creation day when the period is 7d, and by the most recent
\* Sunday on or before its creation date otherwise, so that two orders share
\* a bucket exactly when they fall in the same Sunday-started week; buckets
\* come in ascending key order.
C23_RevenueTrendBuckets ==
  \A period \in {"7d", "30d", "90d", "all"} :
     Reported(period) =>
        LET W == Window(req.tenantId, period)
            trend == resp.analytics.revenueTrend
        IN /\ {trend[k].period : k \in DOMAIN trend} = {BucketOf(i, period) : i \in W}
           /\ \A k \in DOMAIN trend :
                 LET bucket == {i \in W : BucketOf(i, period) = trend[k].period}
                 IN /\ trend[k].orders = Cardinality(bucket)
                    /\ IsCents(trend[k].revenue, TotalCents(bucket))
           /\ \A k, l \in DOMAIN trend : k < l => trend[k].period < trend[l].period

C25_ConversionRateRounded ==
  \A period \in {"7d", "30d", "90d", "all"} :
     Reported(period) =>
        LET W == Window(req.tenantId, period)
            total == Cardinality(W)
            delivered == Cardinality({i \in W : orders[i].status = "delivered"})
            rate == resp.analytics.conversionRate
            gap == rate * total - delivered * 100 * 100
        IN /\ total = 0 => rate = 0
           /\ 2 * gap <= total /\ 2 * (0 - gap) <= total
           /\ 0 <= rate /\ rate <= 100 * 100

\* Two of three window orders delivered: 66.67.
C25_Witness ==
  /\ Reported("all") /\ req.tenantId = "t1"
  /\ Cardinality(Window("t1", "all")) = 3
  /\ Cardinality({i \in Window("t1", "all") : orders[i].status = "delivered"}) = 2
  /\ resp.analytics.conversionRate = 6667

DeliveredCents(set) == TotalCents({i \in set : orders[i].status = "delivered"})

\* The stats just served add up: revenue over exactly the delivered orders,
\* order count over all of them.
StatsAddUp ==
  /\ (req.op = "stats" /\ resp.code = 200) =>
        LET mine == {i \in DOMAIN orders : orders[i].tenantId = req.tenantId}
        IN /\ resp.stats.totalRevenue = DeliveredCents(mine)
           /\ resp.stats.totalOrders = Cardinality(mine)
  /\ req.op = "adminStats" =>
        /\ resp.stats.totalRevenue = DeliveredCents(DOMAIN orders)
        /\ resp.stats.totalOrders = Len(orders)

\* An order has just been moved from delivered to another status.
LeftDelivered ==
  /\ req'.op = "patchOrder" /\ resp'.code = 200
  /\ was' = "delivered" /\ req'.status # "delivered"

\* C27: in the tenant's order stats and in the admin stats totalRevenue is
\* the sum of total over exactly the orders whose status is delivered and
\* totalOrders counts the orders of every status; so moving an order from
\* delivered to another status lowers totalRevenue by its total and leaves
\* totalOrders as it was.
C27_RevenueFromDeliveredOnly ==
  [][ /\ StatsAddUp'
      /\ \A id \in DOMAIN orders, owner \in TenantIds :
           (LeftDelivered /\ req'.id = id /\ orders[id].tenantId = owner) =>
              /\ getOrderStats(owner)'.totalRevenue
                   = getOrderStats(owner).totalRevenue - orders[id].total
              /\ getOrderStats(owner)'.totalOrders = getOrderStats(owner).totalOrders
              /\ getAdminStats'.totalRevenue = getAdminStats.totalRevenue - orders[id].total
              /\ getAdminStats'.totalOrders = getAdminStats.totalOrders ]_vars

\* Order 2 has just been moved from delivered to cancelled while order 1
\* stays delivered: the stats now give the total of order 1 as revenue and
\* still count both orders.
C27_Witness ==
  /\ req.op = "patchOrder" /\ resp.code = 200 /\ req.id = 2
  /\ was = "delivered" /\ req.status = "cancelled"
  /\ Len(orders) = 2 /\ orders[1].status = "delivered"
  /\ getAdminStats.totalRevenue = orders[1].total
  /\ getAdminStats.totalOrders = 2
  /\ getOrderStats(orders[2].tenantId).totalOrders >= 1

\* The custom-domain flag of the plan a tenant is on.
CanUseCustomDomain(tenantId) == plans[tenants[tenantId].planId].allowCustomDomain

\* Names that are well formed as submitted, and what they are stored as.
WellFormed ==
  [d \in {<<"a", ".", "c", "o">>, <<" ", "A", ".", "c", "o">>, <<"a", ".", "C", "O", " ">>,
          <<"b", ".", "c", "o">>} |->
     IF d = <<"b", ".", "c", "o">> THEN d ELSE <<"a", ".", "c", "o">>]

Registered(name) == \E m \in DOMAIN domainMappings : domainMappings[m].domain = name

\* A domain registration has just been served.
DomainAttempt == req'.op = "postDomain"

Named(ids) == {ids[k] : k \in DOMAIN ids}

\* A bulk status update has just been served whose ids all belong to the caller.
OwnedBatch ==
  /\ req'.op = "bulkStatus"
  /\ req'.ids # << >>
  /\ \A i \in Named(req'.ids) : i \in DOMAIN orders /\ orders[i].tenantId = req'.tenantId

\* C29: when every id of the list belongs to the caller's tenant the bulk
\* status update succeeds, gives each named order the target status, changes
\* no other order and returns the number of orders updated, for every
\* non-empty list of owned ids, a list that repeats an id included.
C29_OwnedBatchSucceeds ==
  [][ OwnedBatch =>
        /\ resp'.code = 200
        /\ resp'.order = Cardinality(Named(req'.ids))
        /\ DOMAIN orders' = DOMAIN orders
        /\ \A i \in DOMAIN orders :
              orders'[i] = IF i \in Named(req'.ids)
                           THEN [orders[i] EXCEPT !.status = req'.status]
                           ELSE orders[i] ]_vars

\* No registration in flight has created the tenant.
Settled(t) == \A rid \in DOMAIN creating : creating[rid].tenant # t

\* The tenant has a user, a settings row and two shipping classes.
Furnished(t) ==
  /\ \E u \in DOMAIN users : users[u].tenantId = t
  /\ t \in DOMAIN storeSettings
  /\ Cardinality({s \in DOMAIN shippingClasses : shippingClasses[s].tenantId = t}) = 2

\* The rows a tenant id is found in.
RowsOf(t) ==
  \/ t \in DOMAIN tenants
  \/ \E u \in DOMAIN users : users[u].tenantId = t
  \/ t \in DOMAIN storeSettings
  \/ \E s \in DOMAIN shippingClasses : shippingClasses[s].tenantId = t

\* C30: a registration that ends in failure (e-mail registered, slug taken,
\* or a uniqueness conflict with an overlapping registration) leaves no
\* tenant, user, settings or shipping-class row it created; every tenant
\* that exists, none of a registration still running, has a user, a
\* settings row and its two shipping classes.
C30_RegistrationAllOrNothing ==
  [][ /\ \A rid \in DOMAIN creating, t \in DOMAIN tenants :
           (rid \notin DOMAIN creating' /\ resp'.code # 200 /\ creating[rid].tenant = t)
              => ~ RowsOf(t)'
      /\ \A t \in DOMAIN tenants' : Settled(t)' => Furnished(t)' ]_vars
====
